---------------------------- MODULE Spec2Model ----------------------------
(***************************************************************************)
(* Model of oead's AAMP text layer (src/src/aamp_text.cpp): the NameTable  *)
(* that recovers parameter names from their CRC32 hashes, the YAML text    *)
(* emitter (ParameterIO::ToText) and the YAML text reader                  *)
(* (ParameterIO::FromText).                                                *)
(*                                                                         *)
(* Strings are sequences of one-character strings, so that prefixes,       *)
(* suffixes and printf-style formatting are computed character by          *)
(* character.  A printf directive (%s, %d, %02d, %03d) is one element of   *)
(* a format sequence.                                                      *)
(***************************************************************************)
EXTENDS Integers, Sequences, FiniteSets, TLC

(***************************************************************************)
(* Bounds of the model.                                                    *)
(***************************************************************************)
\* Largest index GetName is called with.
MaxIndex == 1
\* Number of NameTable operations in one behaviour of Spec.
MaxCalls == 3

(***************************************************************************)
(* Characters and hashing.                                                 *)
(***************************************************************************)
Alphabet ==
  << "0", "1", "2", "3", "4", "5", "6", "7", "8", "9", "_", "-", ".",
     "C", "F", "L", "N", "Q", "d", "e", "h", "i", "l", "n", "o", "r", "s", "t",
     "\n", "p", "a", "m", "u" >>

CodeTable ==
  [c \in { Alphabet[k] : k \in 1..Len(Alphabet) } |->
     CHOOSE k \in 1..Len(Alphabet) : Alphabet[k] = c]

Code(c) == CodeTable[c]

\* The range of the hash function and its multiplier: util::crc32 maps a string
\* to a u32; the model folds the characters into a range small enough for
\* collisions between short strings to occur.
HashMod == 509
HashMul == 37

RECURSIVE HashFrom(_, _, _)
HashFrom(h, s, k) ==
  IF k > Len(s) THEN h
  ELSE HashFrom((h * HashMul + Code(s[k])) % HashMod, s, k + 1)

crc32(s) == HashFrom(7, s, 1)

(***************************************************************************)
(* absl::EndsWith, string_view::substr and absl::StrFormat.                *)
(***************************************************************************)
EndsWith(text, suffix) ==
  /\ Len(suffix) <= Len(text)
  /\ SubSeq(text, Len(text) - Len(suffix) + 1, Len(text)) = suffix

\* text.substr(0, n)
Prefix(text, n) == SubSeq(text, 1, n)

Digit(d) == Alphabet[d + 1]

RECURSIVE Decimal(_)
\* The decimal digits of n >= 0.
Decimal(n) == IF n < 10 THEN << Digit(n) >> ELSE Decimal(n \div 10) \o << Digit(n % 10) >>

RECURSIVE ZeroPad(_, _)
ZeroPad(digits, width) ==
  IF Len(digits) >= width THEN digits ELSE ZeroPad(<< "0" >> \o digits, width)

\* printf's %d, %02d, %03d: the width counts the sign, zeros go after it.
FormatInt(n, width) ==
  IF n < 0 THEN << "-" >> \o ZeroPad(Decimal(-n), width - 1)
  ELSE ZeroPad(Decimal(n), width)

IsDirective(tok) == tok \in { "%s", "%d", "%02d", "%03d" }

RECURSIVE StrFormatFrom(_, _, _, _)
StrFormatFrom(format, args, k, a) ==
  IF k > Len(format) THEN << >>
  ELSE LET tok == format[k]
       IN  IF ~IsDirective(tok) THEN << tok >> \o StrFormatFrom(format, args, k + 1, a)
           ELSE LET text == CASE tok = "%s" -> args[a]
                              [] tok = "%d" -> FormatInt(args[a], 0)
                              [] tok = "%02d" -> FormatInt(args[a], 2)
                              [] tok = "%03d" -> FormatInt(args[a], 3)
                IN  text \o StrFormatFrom(format, args, k + 1, a + 1)

\* absl::StrFormat(format, args...)
StrFormat(format, args) == StrFormatFrom(format, args, 1, 1)

(***************************************************************************)
(* std::optional and map emplace.                                          *)
(***************************************************************************)
nullopt == << >>
Some(v) == << v >>
HasValue(o) == o # << >>
Value(o) == o[1]

\* map.emplace(key, value): the first insertion for a key wins.
Emplace(map, key, value) == IF key \in DOMAIN map THEN map ELSE map @@ (key :> value)

EmptyMap == << >>


(***************************************************************************)
(* String literals of the program and of the bundled resource files.       *)
(***************************************************************************)
Str_Children == << "C", "h", "i", "l", "d", "r", "e", "n" >>
Str_s == << "s" >>
Str_es == << "e", "s" >>
Str_List == << "L", "i", "s", "t" >>
Str_FooList == << "F", "o", "o", "L", "i", "s", "t" >>
Str_Foes == << "F", "o", "e", "s" >>
Str_Foo_1 == << "F", "o", "o", "_", "1" >>
Str_sCs == << "s", "C", "s" >>
Str_Fo_01 == << "F", "o", "_", "0", "1" >>
Str_N_1 == << "N", "_", "1" >>
Str_Q01 == << "Q", "0", "1" >>
Str_Children1 == Str_Children \o << "1" >>
Str_Foes1 == Str_Foes \o << "1" >>
Str_Foo_11 == Str_Foo_1 \o << "1" >>
Str_Foe_002 == << "F", "o", "e", "_", "0", "0", "2" >>

\* data/botw_hashed_names.txt: one name per line (here with an empty line and
\* no final line break).
BotwHashedNames == Str_FooList \o << "\n", "\n" >> \o Str_Foes

\* data/botw_numbered_names.txt: one printf format per line.
BotwNumberedNames == << "N", "_", "%d", "\n", "Q", "%02d", "\n" >>

(***************************************************************************)
(* SplitStringByLine: the lines the callback is called with, in order.     *)
(***************************************************************************)
\* data.find('\n', pos): 0 stands for npos.
FindNewline(data, pos) ==
  IF \E k \in pos..Len(data) : data[k] = "\n"
  THEN CHOOSE k \in pos..Len(data) :
         /\ data[k] = "\n"
         /\ \A j \in pos..(k - 1) : data[j] # "\n"
  ELSE 0

RECURSIVE SplitStringByLineFrom(_, _)
SplitStringByLineFrom(data, line_start_pos) ==
  IF line_start_pos > Len(data) THEN << >>
  ELSE LET line_end_pos == FindNewline(data, line_start_pos)
           stop == IF line_end_pos = 0 THEN Len(data) + 1 ELSE line_end_pos
           cb == IF line_start_pos # line_end_pos
                 THEN << SubSeq(data, line_start_pos, stop - 1) >>
                 ELSE << >>
       IN  IF line_end_pos = 0 THEN cb
           ELSE cb \o SplitStringByLineFrom(data, line_end_pos + 1)

SplitStringByLine(data) == SplitStringByLineFrom(data, 1)

(***************************************************************************)
(* NameTable.                                                              *)
(***************************************************************************)
RECURSIVE EmplaceNames(_, _, _)
\* names.emplace(util::crc32(name), name) for each line, in order.
EmplaceNames(names, lines, k) ==
  IF k > Len(lines) THEN names
  ELSE EmplaceNames(Emplace(names, crc32(lines[k]), lines[k]), lines, k + 1)

\* NameTable::NameTable(bool with_botw_strings)
NameTable(with_botw_strings) ==
  IF ~with_botw_strings
  THEN [names |-> EmptyMap, owned_names |-> EmptyMap, numbered_names |-> << >>]
  ELSE [names |-> EmplaceNames(EmptyMap, SplitStringByLine(BotwHashedNames), 1),
        owned_names |-> EmptyMap,
        numbered_names |-> SplitStringByLine(BotwNumberedNames)]

\* AddName without the emplace: the name is returned and not remembered.
AddName_NoInsert(owned_names, hash, name) ==
  [owned_names |-> owned_names, ret |-> name]

\* AddName on a map that keeps only the last name.
AddName_Replace(owned_names, hash, name) ==
  [owned_names |-> hash :> name, ret |-> name]

\* NameTable::AddName: the map after the emplace, and the string it returns.
AddName(owned_names, hash, name) ==
  LET after == Emplace(owned_names, hash, name)
  IN  [owned_names |-> after, ret |-> after[hash]]

\* An AddNameReference that replaces the entry of the name's hash.
AddNameReference_Replace(t, name) ==
  [t EXCEPT !.names = [h \in DOMAIN t.names \cup { crc32(name) } |->
                         IF h = crc32(name) THEN name ELSE t.names[h]]]

\* NameTable::AddNameReference
AddNameReference(t, name) ==
  [t EXCEPT !.names = Emplace(t.names, crc32(name), name)]

\* The six formats of test_names.
formats ==
  << << "%s", "%d" >>, << "%s", "_", "%d" >>, << "%s", "%02d" >>,
     << "%s", "_", "%02d" >>, << "%s", "%03d" >>, << "%s", "_", "%03d" >> >>

\* The candidates test_names formats for a prefix, in the order it tries them:
\* for (int i : {index, index + 1}) for (format : formats).
RECURSIVE FormatEach(_, _, _, _)
FormatEach(prefix, i, fmts, k) ==
  IF k > Len(fmts) THEN << >>
  ELSE << StrFormat(fmts[k], << prefix, i >>) >> \o FormatEach(prefix, i, fmts, k + 1)

\* test_names trying i = index only.
TestCandidates_IndexOnly(prefix, index) == FormatEach(prefix, index, formats, 1)

TestCandidates(prefix, index) ==
  FormatEach(prefix, index, formats, 1) \o FormatEach(prefix, index + 1, formats, 1)

RECURSIVE FirstMatchFrom(_, _, _)
FirstMatchFrom(candidates, hash, k) ==
  IF k > Len(candidates) THEN nullopt
  ELSE IF crc32(candidates[k]) = hash THEN Some(candidates[k])
  ELSE FirstMatchFrom(candidates, hash, k + 1)

\* The first candidate whose crc32 is the hash, if any.
FirstMatch(candidates, hash) == FirstMatchFrom(candidates, hash, 1)

\* The lambda test_names of GetName.
test_names(prefix, hash, index) == FirstMatch(TestCandidates(prefix, index), hash)

Suffixes == << Str_s, Str_es, Str_List >>

RECURSIVE SuffixGuess(_, _, _, _)
\* for (suffix : {"s", "es", "List"}): skip a suffix the parent name does not
\* end with, return the first match.
SuffixGuess(parent_name, hash, index, k) ==
  IF k > Len(Suffixes) THEN nullopt
  ELSE LET suffix == Suffixes[k]
       IN  IF ~EndsWith(parent_name, suffix)
           THEN SuffixGuess(parent_name, hash, index, k + 1)
           ELSE LET match == test_names(Prefix(parent_name, Len(parent_name) - Len(suffix)),
                                        hash, index)
                IN  IF HasValue(match) THEN match
                    ELSE SuffixGuess(parent_name, hash, index, k + 1)

\* The candidates of the last resort, in order: for (name : numbered_names)
\* for (i = 0; i < index + 2; ++i).
RECURSIVE NumberedCandidatesFrom(_, _, _, _)
NumberedCandidatesFrom(numbered_names, index, k, i) ==
  IF k > Len(numbered_names) THEN << >>
  ELSE IF i >= index + 2 THEN NumberedCandidatesFrom(numbered_names, index, k + 1, 0)
  ELSE << StrFormat(numbered_names[k], << i >>) >>
       \o NumberedCandidatesFrom(numbered_names, index, k, i + 1)

\* The numbered names for i up to index only.
NumberedCandidates_ToIndex(numbered_names, index) ==
  NumberedCandidatesFrom(numbered_names, index - 1, 1, 0)

NumberedCandidates(numbered_names, index) ==
  NumberedCandidatesFrom(numbered_names, index, 1, 0)

\* A guessed name is inserted into owned_names and the stored string returned.
Guessed(t, hash, match, stage) ==
  LET added == AddName(t.owned_names, hash, Value(match))
  IN  [ret |-> Some(added.ret), stage |-> stage, owned_names |-> added.owned_names]

\* if (const auto match = ...) return *match; else the rest of the function.
OrElse(t, hash, match, stage, rest) ==
  IF HasValue(match) THEN Guessed(t, hash, match, stage) ELSE rest

\* GetName looking into owned_names before names.
GetName_OwnedFirst(t, hash, index, parent_name_hash) ==
  IF hash \in DOMAIN t.owned_names
  THEN [ret |-> Some(t.owned_names[hash]), stage |-> 2, owned_names |-> t.owned_names]
  ELSE IF hash \in DOMAIN t.names
  THEN [ret |-> Some(t.names[hash]), stage |-> 1, owned_names |-> t.owned_names]
  ELSE
    LET has_parent == parent_name_hash \in DOMAIN t.names
        parent_name == t.names[parent_name_hash]
        m3 == IF has_parent THEN test_names(parent_name, hash, index) ELSE nullopt
        m4 == IF has_parent THEN test_names(Str_Children, hash, index) ELSE nullopt
        m5 == IF has_parent THEN SuffixGuess(parent_name, hash, index, 1) ELSE nullopt
        m6 == FirstMatch(NumberedCandidates(t.numbered_names, index), hash)
    IN  OrElse(t, hash, m3, 3,
        OrElse(t, hash, m4, 4,
        OrElse(t, hash, m5, 5,
        OrElse(t, hash, m6, 6,
               [ret |-> nullopt, stage |-> 7, owned_names |-> t.owned_names]))))

\* NameTable::GetName: what it returns, the stage (1..7) that answered, and
\* owned_names after the call.
GetName(t, hash, index, parent_name_hash) ==
  IF hash \in DOMAIN t.names
  THEN [ret |-> Some(t.names[hash]), stage |-> 1, owned_names |-> t.owned_names]
  ELSE IF hash \in DOMAIN t.owned_names
  THEN [ret |-> Some(t.owned_names[hash]), stage |-> 2, owned_names |-> t.owned_names]
  ELSE
    LET has_parent == parent_name_hash \in DOMAIN t.names
        parent_name == t.names[parent_name_hash]
        m3 == IF has_parent THEN test_names(parent_name, hash, index) ELSE nullopt
        m4 == IF has_parent THEN test_names(Str_Children, hash, index) ELSE nullopt
        m5 == IF has_parent THEN SuffixGuess(parent_name, hash, index, 1) ELSE nullopt
        m6 == FirstMatch(NumberedCandidates(t.numbered_names, index), hash)
    IN  OrElse(t, hash, m3, 3,
        OrElse(t, hash, m4, 4,
        OrElse(t, hash, m5, 5,
        OrElse(t, hash, m6, 6,
               [ret |-> nullopt, stage |-> 7, owned_names |-> t.owned_names]))))


(***************************************************************************)
(* Parameters, objects, lists and parameter IOs (aamp.h).  A map keyed by  *)
(* Name is a sequence of entries [name, v] in iteration order, name being  *)
(* the hash of the key.  A float is a number of tenths.                    *)
(***************************************************************************)
StringTypes == { "String32", "String64", "String256", "StringRef" }

IsStringType(type) == type \in StringTypes

Param(type, v) == [type |-> type, v |-> v]

Entry(name, v) == [name |-> name, v |-> v]

ParameterObject(params) == [params |-> params]

ParameterList(objects, lists) == [objects |-> objects, lists |-> lists]

ParameterIO(version, type, objects, lists) ==
  [version |-> version, type |-> type, objects |-> objects, lists |-> lists]

Str_param_root == << "p", "a", "r", "a", "m", "_", "r", "o", "o", "t" >>

\* ParameterIO::ParamRootKey
ParamRootKey == crc32(Str_param_root)

(***************************************************************************)
(* TextEmitter::BuildExtraNameTable.                                       *)
(***************************************************************************)
RECURSIVE AddStringParams(_, _, _)
\* The loop over obj.params: every parameter of a string type is registered.
AddStringParams(params, k, t) ==
  IF k > Len(params) THEN t
  ELSE AddStringParams(params, k + 1,
         IF IsStringType(params[k].v.type)
         THEN AddNameReference(t, params[k].v.v) ELSE t)

RECURSIVE AddObjectStrings(_, _, _)
\* The loop over list.objects.
AddObjectStrings(objects, k, t) ==
  IF k > Len(objects) THEN t
  ELSE AddObjectStrings(objects, k + 1, AddStringParams(objects[k].v.params, 1, t))

\* The extra name table of an emitter that does not walk the nested lists.
BuildExtraNameTable_RootOnly(list, t) == AddObjectStrings(list.objects, 1, t)

RECURSIVE BuildExtraNameTable(_, _)
RECURSIVE AddListStrings(_, _, _)
\* The loop over list.lists.
AddListStrings(lists, k, t) ==
  IF k > Len(lists) THEN t
  ELSE AddListStrings(lists, k + 1, BuildExtraNameTable(lists[k].v, t))

BuildExtraNameTable(list, t) ==
  AddListStrings(list.lists, 1, AddObjectStrings(list.objects, 1, t))

(***************************************************************************)
(* Integer widths.  A u32 has WordBits bits and a u64 twice as many: the   *)
(* widths are scaled down, the conversions between them are kept.          *)
(***************************************************************************)
WordBits == 10

U32Mod == 2 ^ WordBits
U64Mod == 2 ^ (2 * WordBits)

\* static_cast<u32>(u64) and U32(u64)
ToU32(v) == v % U32Mod

\* int(u64): the low word, read as a two's complement number
ToInt(v) == IF v % U32Mod >= U32Mod \div 2 THEN (v % U32Mod) - U32Mod ELSE v % U32Mod

\* u8(u64)
ToU8(v) == v % 256

(***************************************************************************)
(* YAML events and the scalar emitters of yml::LibyamlEmitter.  A scalar   *)
(* carries its tag ("" for none), its text and whether it is quoted.       *)
(***************************************************************************)
StreamStart == [ev |-> "stream_start"]
StreamEnd == [ev |-> "stream_end"]
DocumentStart == [ev |-> "document_start"]
DocumentEnd == [ev |-> "document_end"]
MappingStart(tag) == [ev |-> "mapping_start", tag |-> tag]
MappingEnd == [ev |-> "mapping_end"]
SequenceStart(tag) == [ev |-> "sequence_start", tag |-> tag]
SequenceEnd == [ev |-> "sequence_end"]
ScalarEvent(tag, text, quoted) ==
  [ev |-> "scalar", tag |-> tag, text |-> text, quoted |-> quoted]

Str_true == << "t", "r", "u", "e" >>
Str_false == << "f", "a", "l", "s", "e" >>
Str_null == << "n", "u", "l", "l" >>
Str_tilde == << "~" >>

DigitChars == { "0", "1", "2", "3", "4", "5", "6", "7", "8", "9" }

IsDigits(s) == Len(s) > 0 /\ \A k \in 1..Len(s) : s[k] \in DigitChars

\* The text after an optional minus sign.
Unsigned(s) == IF Len(s) > 0 /\ s[1] = "-" THEN Tail(s) ELSE s

IsIntText(s) == IsDigits(Unsigned(s))

\* The place of the decimal point, 0 if there is none.
PointAt(s) ==
  IF \E k \in 1..Len(s) : s[k] = "."
  THEN CHOOSE k \in 1..Len(s) : s[k] = "." /\ \A j \in 1..(k - 1) : s[j] # "."
  ELSE 0

IsFloatText(s) ==
  LET u == Unsigned(s)
      p == PointAt(u)
  IN  /\ p > 1
      /\ IsDigits(SubSeq(u, 1, p - 1))
      /\ IsDigits(SubSeq(u, p + 1, Len(u)))

\* The type the YAML core schema gives to an untagged plain scalar.
PlainType(s) ==
  IF s \in { << >>, Str_null, Str_tilde } THEN "null"
  ELSE IF s \in { Str_true, Str_false } THEN "bool"
  ELSE IF IsIntText(s) THEN "int"
  ELSE IF IsFloatText(s) THEN "float"
  ELSE "string"

\* yml::StringNeedsQuotes: a string that would not be read back as a string.
StringNeedsQuotes(s) == PlainType(s) # "string"

EmitBool(v) == ScalarEvent("", IF v THEN Str_true ELSE Str_false, FALSE)

EmitInt(v, tag) == ScalarEvent(tag, FormatInt(v, 0), FALSE)

\* A float of n tenths is written with its decimal point.
FormatFloat(n) ==
  LET a == IF n < 0 THEN -n ELSE n
  IN  (IF n < 0 THEN << "-" >> ELSE << >>) \o Decimal(a \div 10) \o << "." >> \o
      << Digit(a % 10) >>

EmitFloat(v) == ScalarEvent("", FormatFloat(v), FALSE)

EmitString(v, tag) == ScalarEvent(tag, v, StringNeedsQuotes(v))

\* The key strings of the document shape.
Str_version == << "v", "e", "r", "s", "i", "o", "n" >>
Str_type == << "t", "y", "p", "e" >>
Str_objects == << "o", "b", "j", "e", "c", "t", "s" >>
Str_lists == << "l", "i", "s", "t", "s" >>

RECURSIVE Concat(_)
\* The concatenation of a sequence of sequences.
Concat(seqs) == IF seqs = << >> THEN << >> ELSE Head(seqs) \o Concat(Tail(seqs))

\* EmitSimpleSequence: a flow sequence of numbers, floats or integers.
EmitSimpleSequence(values, is_float, tag) ==
  << SequenceStart(tag) >> \o
  [k \in 1..Len(values) |->
     IF is_float THEN EmitFloat(values[k]) ELSE EmitInt(values[k], "")] \o
  << SequenceEnd >>

(***************************************************************************)
(* TextEmitter.  The emitter's walk over a parameter IO is the sequence of *)
(* its operations on the YAML emitter: an event handed to libyaml, or a    *)
(* call of EmitName, whose scalar depends on the name tables.              *)
(***************************************************************************)
EmitOp(event) == [op |-> "Emit", event |-> event]

EmitNameOp(name, index, parent_name) ==
  [op |-> "EmitName", name |-> name, index |-> index, parent_name |-> parent_name]

EmitOps(events) == [k \in 1..Len(events) |-> EmitOp(events[k])]

\* EmitCurves: a flow sequence tagged !curve of a, b and the floats of each curve.
EmitCurves(curves) ==
  << SequenceStart("!curve") >> \o
  Concat([k \in 1..Len(curves) |->
            << EmitInt(curves[k].a, ""), EmitInt(curves[k].b, "") >> \o
            [j \in 1..Len(curves[k].floats) |-> EmitFloat(curves[k].floats[j])]]) \o
  << SequenceEnd >>

\* EmitParameter: the events of one parameter, by the type of its variant.
EmitParameter(param) ==
  LET v == param.v
  IN  CASE param.type = "Bool" -> << EmitBool(v) >>
        [] param.type = "F32" -> << EmitFloat(v) >>
        [] param.type = "Int" -> << EmitInt(v, "") >>
        [] param.type = "Vec2" -> EmitSimpleSequence(v, TRUE, "!vec2")
        [] param.type = "Vec3" -> EmitSimpleSequence(v, TRUE, "!vec3")
        [] param.type = "Vec4" -> EmitSimpleSequence(v, TRUE, "!vec4")
        [] param.type = "Color" -> EmitSimpleSequence(v, TRUE, "!color")
        [] param.type = "String32" -> << EmitString(v, "!str32") >>
        [] param.type = "String64" -> << EmitString(v, "!str64") >>
        [] param.type \in { "Curve1", "Curve2", "Curve3", "Curve4" } -> EmitCurves(v)
        [] param.type = "BufferInt" -> EmitSimpleSequence(v, FALSE, "!buffer_int")
        [] param.type = "BufferF32" -> EmitSimpleSequence(v, TRUE, "!buffer_f32")
        [] param.type = "String256" -> << EmitString(v, "!str256") >>
        [] param.type = "Quat" -> EmitSimpleSequence(v, TRUE, "!quat")
        [] param.type = "U32" -> << EmitInt(v, "!u") >>
        [] param.type = "BufferU32" -> EmitSimpleSequence(v, FALSE, "!buffer_u32")
        [] param.type = "BufferBinary" -> EmitSimpleSequence(v, FALSE, "!buffer_binary")
        [] param.type = "StringRef" -> << EmitString(v, "") >>

\* EmitParameterObject: a block mapping tagged !obj; the parameter at place k
\* of the iteration is named with i = k - 1.
EmitParameterObject(pobject, parent_name) ==
  << EmitOp(MappingStart("!obj")) >> \o
  Concat([k \in 1..Len(pobject.params) |->
            << EmitNameOp(pobject.params[k].name, k - 1, parent_name) >> \o
            EmitOps(EmitParameter(pobject.params[k].v))]) \o
  << EmitOp(MappingEnd) >>

\* A parameter list whose two loops share one counter.
RECURSIVE EmitParameterList_OneCounter(_, _)
EmitParameterList_OneCounter(plist, parent_name) ==
  << EmitOp(MappingStart("!list")),
     EmitOp(EmitString(Str_objects, "")), EmitOp(MappingStart("")) >> \o
  Concat([k \in 1..Len(plist.objects) |->
            << EmitNameOp(plist.objects[k].name, k - 1, parent_name) >> \o
            EmitParameterObject(plist.objects[k].v, plist.objects[k].name)]) \o
  << EmitOp(MappingEnd),
     EmitOp(EmitString(Str_lists, "")), EmitOp(MappingStart("")) >> \o
  Concat([k \in 1..Len(plist.lists) |->
            << EmitNameOp(plist.lists[k].name, Len(plist.objects) + k - 1,
                          parent_name) >> \o
            EmitParameterList_OneCounter(plist.lists[k].v, plist.lists[k].name)]) \o
  << EmitOp(MappingEnd), EmitOp(MappingEnd) >>

RECURSIVE EmitParameterList(_, _)
\* EmitParameterList: a block mapping tagged !list of the two mappings
\* "objects" and "lists", each counted from 0; the entries of a child are
\* named with the child's own key as their parent.
EmitParameterList(plist, parent_name) ==
  << EmitOp(MappingStart("!list")),
     EmitOp(EmitString(Str_objects, "")), EmitOp(MappingStart("")) >> \o
  Concat([k \in 1..Len(plist.objects) |->
            << EmitNameOp(plist.objects[k].name, k - 1, parent_name) >> \o
            EmitParameterObject(plist.objects[k].v, plist.objects[k].name)]) \o
  << EmitOp(MappingEnd),
     EmitOp(EmitString(Str_lists, "")), EmitOp(MappingStart("")) >> \o
  Concat([k \in 1..Len(plist.lists) |->
            << EmitNameOp(plist.lists[k].name, k - 1, parent_name) >> \o
            EmitParameterList(plist.lists[k].v, plist.lists[k].name)]) \o
  << EmitOp(MappingEnd), EmitOp(MappingEnd) >>

\* EmitParameterIO: a block mapping tagged !io of version, type and param_root.
EmitParameterIO(pio) ==
  << EmitOp(MappingStart("!io")),
     EmitOp(EmitString(Str_version, "")), EmitOp(EmitInt(pio.version, "")),
     EmitOp(EmitString(Str_type, "")), EmitOp(EmitString(pio.type, "")),
     EmitOp(EmitString(Str_param_root, "")) >> \o
  EmitParameterList(pio, ParamRootKey) \o
  << EmitOp(MappingEnd) >>

\* TextEmitter::Emit after BuildExtraNameTable: the stream and document
\* events around EmitParameterIO.
EmitterOps(pio) ==
  << EmitOp(StreamStart), EmitOp(DocumentStart) >> \o
  EmitParameterIO(pio) \o
  << EmitOp(DocumentEnd), EmitOp(StreamEnd) >>

\* EmitName: the scalar of a key, given the results of the lookups in the
\* extra table and (if it was needed) in the default table.
EmitNameScalar(name, extra_ret, default_ret) ==
  IF HasValue(extra_ret) THEN EmitString(Value(extra_ret), "")
  ELSE IF HasValue(default_ret) THEN EmitString(Value(default_ret), "")
  ELSE EmitInt(name, "")

(***************************************************************************)
(* The YAML tree of ryml::parse.  The text libyaml writes for a stream of  *)
(* events is read back as the tree of those events: a node is a scalar     *)
(* (val), a mapping of keyed children or a sequence of children.           *)
(***************************************************************************)
ValNode(tag, text, quoted) ==
  [kind |-> "val", tag |-> tag, text |-> text, quoted |-> quoted]

MapNode(tag, children) == [kind |-> "map", tag |-> tag, children |-> children]

SeqNode(tag, children) == [kind |-> "seq", tag |-> tag, children |-> children]

\* A child of a mapping: the scalar of its key and its node.
Keyed(key, node) == [key |-> key, node |-> node]

RECURSIVE ParseNode(_, _)
RECURSIVE ParseMapping(_, _, _)
RECURSIVE ParseSequence(_, _, _)
\* The node that starts at event k, and the place after it.
ParseNode(events, k) ==
  LET e == events[k]
  IN  CASE e.ev = "scalar" ->
             [node |-> ValNode(e.tag, e.text, e.quoted), next |-> k + 1]
        [] e.ev = "mapping_start" ->
             LET r == ParseMapping(events, k + 1, << >>)
             IN  [node |-> MapNode(e.tag, r.children), next |-> r.next]
        [] e.ev = "sequence_start" ->
             LET r == ParseSequence(events, k + 1, << >>)
             IN  [node |-> SeqNode(e.tag, r.children), next |-> r.next]

ParseMapping(events, k, acc) ==
  IF events[k].ev = "mapping_end" THEN [children |-> acc, next |-> k + 1]
  ELSE LET key == ValNode(events[k].tag, events[k].text, events[k].quoted)
           val == ParseNode(events, k + 1)
       IN  ParseMapping(events, val.next, Append(acc, Keyed(key, val.node)))

\* The children of a sequence up to its end; a run of scalars is taken at once.
ParseSequence(events, k, acc) ==
  IF events[k].ev = "sequence_end" THEN [children |-> acc, next |-> k + 1]
  ELSE IF events[k].ev = "scalar"
  THEN LET after == { j \in k..Len(events) : events[j].ev # "scalar" }
           end == IF after = { } THEN Len(events) + 1
                  ELSE CHOOSE j \in after : \A i \in after : j <= i
       IN  ParseSequence(events, end,
                         acc \o [j \in 1..(end - k) |->
                                   ValNode(events[k + j - 1].tag, events[k + j - 1].text,
                                           events[k + j - 1].quoted)])
  ELSE LET val == ParseNode(events, k)
       IN  ParseSequence(events, val.next, Append(acc, val.node))

\* ryml::parse: the root node of the document, which follows the stream start
\* and the document start.
Parse(events) == ParseNode(events, 3).node

\* node.has_child(name) and node[name] of a mapping
HasChild(node, name) ==
  node.kind = "map" /\ \E k \in DOMAIN node.children : node.children[k].key.text = name

Child(node, name) ==
  node.children[CHOOSE k \in DOMAIN node.children :
                  /\ node.children[k].key.text = name
                  /\ \A j \in 1..(k - 1) : node.children[j].key.text # name].node

\* The keyed children a loop over a node visits.
ChildrenOf(node) == IF node.kind = "map" THEN node.children ELSE << >>

(***************************************************************************)
(* yml::ParseScalar: the scalar of a val node, by its tag if RecognizeTag   *)
(* knows it, as a string if it is quoted, else by its text.                *)
(***************************************************************************)
Scalar(t, v) == [t |-> t, v |-> v]

\* The outcomes of a read: a value, the return value false, or an exception.
Ok(v) == [status |-> "ok", v |-> v]
False == [status |-> "false"]
Throw(what) == [status |-> what]

DigitValue(c) == Code(c) - 1

RECURSIVE ParseDigits(_)
ParseDigits(s) ==
  IF s = << >> THEN 0
  ELSE ParseDigits(SubSeq(s, 1, Len(s) - 1)) * 10 + DigitValue(s[Len(s)])

\* An integer text as a u64: a negative number wraps around.
ParseInt(text) ==
  LET n == ParseDigits(Unsigned(text)) % U64Mod
  IN  IF text[1] = "-" THEN (U64Mod - n) % U64Mod ELSE n

\* A float text as a number of tenths.
ParseFloat(text) ==
  LET u == Unsigned(text)
      p == PointAt(u)
      tenths == ParseDigits(SubSeq(u, 1, p - 1)) * 10 + DigitValue(u[p + 1])
  IN  IF text[1] = "-" THEN -tenths ELSE tenths

\* RecognizeTag
RecognizeTag(tag) ==
  IF tag \in { "!str32", "!str64", "!str256" } THEN Some("Str")
  ELSE IF tag \in { "!u" } THEN Some("Int")
  ELSE nullopt

ParseScalar(node) ==
  LET OfType(type) ==
        CASE type = "string" -> Ok(Scalar("string", node.text))
          [] type = "null" -> Ok(Scalar("null", << >>))
          [] type = "bool" -> Ok(Scalar("bool", node.text = Str_true))
          [] type = "int" ->
               IF IsIntText(node.text) THEN Ok(Scalar("u64", ParseInt(node.text)))
               ELSE Throw("InvalidDataError")
          [] type = "float" -> Ok(Scalar("f64", ParseFloat(node.text)))
  IN  OfType(IF RecognizeTag(node.tag) = Some("Str") THEN "string"
             ELSE IF RecognizeTag(node.tag) = Some("Int") THEN "int"
             ELSE IF node.quoted THEN "string"
             ELSE PlainType(node.text))

\* yml::ParseScalarKey: the same for the key of a keyed child.
ParseScalarKey(child) == ParseScalar(child.key)

(***************************************************************************)
(* Reading parameters from the YAML tree.                                  *)
(***************************************************************************)
\* ScalarToValue: the parameter of a scalar, by its type and the node's tag.
\* A scalar of an integer without the tag !u is an Int.
ScalarToValue_Untagged(tag, scalar) ==
  CASE scalar.t = "bool" -> Ok(Param("Bool", scalar.v))
    [] scalar.t = "string" ->
         IF tag = "!str32" THEN Ok(Param("String32", scalar.v))
         ELSE IF tag = "!str64" THEN Ok(Param("String64", scalar.v))
         ELSE IF tag = "!str256" THEN Ok(Param("String256", scalar.v))
         ELSE Ok(Param("StringRef", scalar.v))
    [] scalar.t = "u64" -> Ok(Param("Int", ToInt(scalar.v)))
    [] scalar.t = "f64" -> Ok(Param("F32", scalar.v))
    [] scalar.t = "null" -> Throw("InvalidDataError")

\* A ScalarToValue that refuses an integer that does not fit into 32 bits.
ScalarToValue_RangeChecked(tag, scalar) ==
  CASE scalar.t = "bool" -> Ok(Param("Bool", scalar.v))
    [] scalar.t = "string" ->
         IF tag = "!str32" THEN Ok(Param("String32", scalar.v))
         ELSE IF tag = "!str64" THEN Ok(Param("String64", scalar.v))
         ELSE IF tag = "!str256" THEN Ok(Param("String256", scalar.v))
         ELSE Ok(Param("StringRef", scalar.v))
    [] scalar.t = "u64" ->
         IF scalar.v >= U32Mod /\ scalar.v < U64Mod - U32Mod \div 2
         THEN Throw("InvalidDataError")
         ELSE IF tag = "!u" THEN Ok(Param("U32", ToU32(scalar.v)))
         ELSE Ok(Param("Int", ToInt(scalar.v)))
    [] scalar.t = "f64" -> Ok(Param("F32", scalar.v))
    [] scalar.t = "null" -> Throw("InvalidDataError")

ScalarToValue(tag, scalar) ==
  CASE scalar.t = "bool" -> Ok(Param("Bool", scalar.v))
    [] scalar.t = "string" ->
         IF tag = "!str32" THEN Ok(Param("String32", scalar.v))
         ELSE IF tag = "!str64" THEN Ok(Param("String64", scalar.v))
         ELSE IF tag = "!str256" THEN Ok(Param("String256", scalar.v))
         ELSE Ok(Param("StringRef", scalar.v))
    [] scalar.t = "u64" ->
         IF tag = "!u" THEN Ok(Param("U32", ToU32(scalar.v)))
         ELSE Ok(Param("Int", ToInt(scalar.v)))
    [] scalar.t = "f64" -> Ok(Param("F32", scalar.v))
    [] scalar.t = "null" -> Throw("InvalidDataError")

\* T(u64) for the integral types.
Narrow(T, v) ==
  CASE T = "u32" -> ToU32(v)
    [] T = "int" -> ToInt(v)
    [] T = "u8" -> ToU8(v)

\* ParseIntOrFloat<T>: std::get of the u64 for an integral T and of the f64 for
\* a float, which throws if the scalar holds another type.
ParseIntOrFloat(T, node) ==
  LET Get(s) ==
        IF s.status # "ok" THEN s
        ELSE IF T = "f32"
        THEN IF s.v.t = "f64" THEN Ok(s.v.v) ELSE Throw("bad_variant_access")
        ELSE IF s.v.t = "u64" THEN Ok(Narrow(T, s.v.v)) ELSE Throw("bad_variant_access")
  IN  Get(ParseScalar(node))

\* The children 1..Len(types) of a sequence, child k read as types[k]: their
\* values, or what the first child that throws has thrown.
ParseChildren(types, children) ==
  LET Values(r) ==
        IF \A k \in 1..Len(types) : r[k].status = "ok"
        THEN Ok([k \in 1..Len(types) |-> r[k].v])
        ELSE r[CHOOSE k \in 1..Len(types) :
                 /\ r[k].status # "ok"
                 /\ \A j \in 1..(k - 1) : r[j].status = "ok"]
  IN  Values([k \in 1..Len(types) |-> ParseIntOrFloat(types[k], children[k])])

\* ReadSequenceForNumericalStruct<T> for a struct of n float fields.
ReadSequenceForNumericalStruct(n, node) ==
  IF Len(node.children) # n THEN Throw("InvalidDataError")
  ELSE ParseChildren([k \in 1..n |-> "f32"], node.children)

\* ReadSequenceForBuffer<T>
ReadSequenceForBuffer(T, node) ==
  ParseChildren([k \in 1..Len(node.children) |-> T], node.children)

NumElementsPerCurve == 32

\* The type of element j (from 0) of a curve sequence: a and b are u32, the
\* floats follow.
CurveElementType(j) == IF j % NumElementsPerCurve \in { 0, 1 } THEN "u32" ELSE "f32"

\* ReadSequenceForCurve<N>
ReadSequenceForCurve(N, node) ==
  LET CurvesOf(r) ==
        IF r.status # "ok" THEN r
        ELSE Ok([c \in 1..N |->
                   [a |-> r.v[(c - 1) * NumElementsPerCurve + 1],
                    b |-> r.v[(c - 1) * NumElementsPerCurve + 2],
                    floats |-> SubSeq(r.v, (c - 1) * NumElementsPerCurve + 3,
                                      c * NumElementsPerCurve)]])
  IN  CurvesOf(ParseChildren([k \in 1..(N * NumElementsPerCurve) |->
                                CurveElementType(k - 1)],
                             node.children))

\* Ok(v) as a parameter of the type.
AsParam(type, r) == IF r.status = "ok" THEN Ok(Param(type, r.v)) ELSE r

\* A reader of !curve that takes as many whole curves as the children give.
ReadCurves_AnyLength(node) ==
  LET Read(N) ==
        IF N = 0 THEN Throw("InvalidDataError")
        ELSE AsParam(CASE N = 1 -> "Curve1" [] N = 2 -> "Curve2"
                       [] N = 3 -> "Curve3" [] N = 4 -> "Curve4",
                     ReadSequenceForCurve(N, node))
  IN  Read(IF Len(node.children) \div NumElementsPerCurve > 4 THEN 4
           ELSE Len(node.children) \div NumElementsPerCurve)

\* The switch over the number of children of a !curve sequence.
ReadCurves(node) ==
  LET n == Len(node.children)
  IN  CASE n = 1 * NumElementsPerCurve -> AsParam("Curve1", ReadSequenceForCurve(1, node))
        [] n = 2 * NumElementsPerCurve -> AsParam("Curve2", ReadSequenceForCurve(2, node))
        [] n = 3 * NumElementsPerCurve -> AsParam("Curve3", ReadSequenceForCurve(3, node))
        [] n = 4 * NumElementsPerCurve -> AsParam("Curve4", ReadSequenceForCurve(4, node))
        [] OTHER -> Throw("InvalidDataError")

\* read(node, Parameter*)
ReadParameter(node) ==
  IF node.kind = "seq"
  THEN CASE node.tag = "!vec2" -> AsParam("Vec2", ReadSequenceForNumericalStruct(2, node))
         [] node.tag = "!vec3" -> AsParam("Vec3", ReadSequenceForNumericalStruct(3, node))
         [] node.tag = "!vec4" -> AsParam("Vec4", ReadSequenceForNumericalStruct(4, node))
         [] node.tag = "!color" -> AsParam("Color", ReadSequenceForNumericalStruct(4, node))
         [] node.tag = "!curve" -> ReadCurves(node)
         [] node.tag = "!buffer_int" -> AsParam("BufferInt", ReadSequenceForBuffer("int", node))
         [] node.tag = "!buffer_f32" -> AsParam("BufferF32", ReadSequenceForBuffer("f32", node))
         [] node.tag = "!buffer_u32" -> AsParam("BufferU32", ReadSequenceForBuffer("u32", node))
         [] node.tag = "!buffer_binary" ->
              AsParam("BufferBinary", ReadSequenceForBuffer("u8", node))
         [] node.tag = "!quat" -> AsParam("Quat", ReadSequenceForNumericalStruct(4, node))
         [] OTHER -> Throw("InvalidDataError")
  ELSE IF node.kind = "val"
  THEN LET OfScalar(s) == IF s.status # "ok" THEN s ELSE ScalarToValue(node.tag, s.v)
       IN  OfScalar(ParseScalar(node))
  ELSE False

\* map.emplace(name, structure): the first entry of a name stays.
EmplaceEntry(map, name, structure) ==
  IF \E k \in DOMAIN map : map[k].name = name THEN map
  ELSE Append(map, Entry(name, structure))

RECURSIVE ReadMap(_, _, _, _)
RECURSIVE ReadParameterList(_)

\* read(node, ParameterObject*)
ReadParameterObject(node) ==
  IF node.kind # "map" THEN False
  ELSE LET Object(r) == IF r.status = "ok" THEN Ok(ParameterObject(r.v)) ELSE r
       IN  Object(ReadMap("Parameter", ChildrenOf(node), 1, << >>))

\* child >> structure: the read of a T, which raises an error if read returns
\* false.
ReadStructure(T, node) ==
  LET Read(r) == IF r.status = "false" THEN Throw("RymlError") ELSE r
  IN  Read(CASE T = "Parameter" -> ReadParameter(node)
             [] T = "ParameterObject" -> ReadParameterObject(node)
             [] T = "ParameterList" -> ReadParameterList(node))

RECURSIVE ReadMap_Partial(_, _, _, _)
\* A ReadMap that stops at the first child whose read fails and keeps the
\* entries read before it.
ReadMap_Partial(T, children, k, map) ==
  IF k > Len(children) THEN Ok(map)
  ELSE LET Emplaced(key, structure) ==
             IF key.status # "ok" \/ structure.status # "ok" THEN Ok(map)
             ELSE IF key.v.t = "u64"
             THEN ReadMap_Partial(T, children, k + 1,
                                  EmplaceEntry(map, ToU32(key.v.v), structure.v))
             ELSE IF key.v.t = "string"
             THEN ReadMap_Partial(T, children, k + 1,
                                  EmplaceEntry(map, crc32(key.v.v), structure.v))
             ELSE Ok(map)
       IN  Emplaced(ParseScalarKey(children[k]), ReadStructure(T, children[k].node))

RECURSIVE ReadMap_IntegerKeys(_, _, _, _)
\* A ReadMap that takes the keys that are integers only.
ReadMap_IntegerKeys(T, children, k, map) ==
  IF k > Len(children) THEN Ok(map)
  ELSE LET Emplaced(key, structure) ==
             IF key.status # "ok" THEN key
             ELSE IF structure.status # "ok" THEN structure
             ELSE IF key.v.t = "u64"
             THEN ReadMap_IntegerKeys(T, children, k + 1,
                                      EmplaceEntry(map, ToU32(key.v.v), structure.v))
             ELSE Throw("InvalidDataError")
       IN  Emplaced(ParseScalarKey(children[k]), ReadStructure(T, children[k].node))

\* ReadMap<T>: for each child its key, its structure, and the emplace under
\* the key's hash: the integer itself, or the crc32 of the string.
ReadMap(T, children, k, map) ==
  IF k > Len(children) THEN Ok(map)
  ELSE LET Emplaced(key, structure) ==
             IF key.status # "ok" THEN key
             ELSE IF structure.status # "ok" THEN structure
             ELSE IF key.v.t = "u64"
             THEN ReadMap(T, children, k + 1,
                          EmplaceEntry(map, ToU32(key.v.v), structure.v))
             ELSE IF key.v.t = "string"
             THEN ReadMap(T, children, k + 1,
                          EmplaceEntry(map, crc32(key.v.v), structure.v))
             ELSE Throw("InvalidDataError")
       IN  Emplaced(ParseScalarKey(children[k]), ReadStructure(T, children[k].node))

\* read(node, ParameterList*)
ReadParameterList(node) ==
  IF node.kind # "map" \/ ~HasChild(node, Str_objects) \/ ~HasChild(node, Str_lists)
  THEN False
  ELSE LET List(objects, lists) ==
             IF objects.status # "ok" THEN objects
             ELSE IF lists.status # "ok" THEN lists
             ELSE Ok(ParameterList(objects.v, lists.v))
       IN  List(ReadMap("ParameterObject", ChildrenOf(Child(node, Str_objects)), 1, << >>),
                ReadMap("ParameterList", ChildrenOf(Child(node, Str_lists)), 1, << >>))

\* read(node, ParameterIO*)
ReadParameterIO(node) ==
  IF node.kind # "map" \/ ~HasChild(node, Str_version) \/ ~HasChild(node, Str_type)
     \/ ~HasChild(node, Str_param_root)
  THEN False
  ELSE LET Pio(version, type, param_root) ==
             IF version.status # "ok" THEN version
             ELSE IF type.status # "ok" THEN type
             ELSE IF type.v.t # "string" THEN Throw("bad_variant_access")
             ELSE IF param_root.status # "ok" THEN param_root
             ELSE Ok(ParameterIO(version.v, type.v.v, param_root.v.objects,
                                 param_root.v.lists))
       IN  Pio(ParseIntOrFloat("u32", Child(node, Str_version)),
               ParseScalar(Child(node, Str_type)),
               ReadStructure("ParameterList", Child(node, Str_param_root)))

\* ParameterIO::FromText: the tree of the text, and the read of its root.
FromText(yml_text) ==
  LET Root(r) == IF r.status = "false" THEN Throw("RymlError") ELSE r
  IN  Root(ReadParameterIO(Parse(yml_text)))

(***************************************************************************)
(* The documents that are emitted.                                         *)
(***************************************************************************)
Str_xml == << "x", "m", "l" >>
Str_12 == << "1", "2" >>
Str_sCs1 == Str_sCs \o << "1" >>

NoParams == ParameterObject(<< >>)

\* No string parameter: every name comes from the default table or stays a hash.
Doc_Guess ==
  ParameterIO(0, Str_xml,
    << Entry(crc32(Str_N_1),
             ParameterObject(<< Entry(crc32(Str_Foes1), Param("Int", 5)),
                                Entry(crc32(Str_sCs), Param("U32", 7)) >>)),
       Entry(crc32(Str_Fo_01), NoParams) >>,
    << Entry(crc32(Str_FooList),
             ParameterList(
               << Entry(crc32(Str_Q01), NoParams),
                  Entry(crc32(Str_Foo_1),
                        ParameterObject(<< Entry(crc32(Str_Foo_11), Param("Bool", TRUE)) >>)) >>,
               << Entry(crc32(Str_Children1), ParameterList(<< >>, << >>)) >>)),
       Entry(crc32(Str_Foes),
             ParameterList(<< Entry(crc32(Str_Fo_01), NoParams) >>, << >>)) >>)

\* String parameters at the root, in a nested list and in a list nested twice.
Doc_Strings ==
  ParameterIO(1, Str_xml,
    << Entry(crc32(Str_sCs),
             ParameterObject(<< Entry(crc32(Str_Foes1), Param("StringRef", Str_Foes1)),
                                Entry(crc32(Str_sCs1), Param("String32", Str_sCs)) >>)) >>,
    << Entry(crc32(Str_FooList),
             ParameterList(
               << Entry(crc32(Str_Fo_01),
                        ParameterObject(<< Entry(crc32(Str_N_1),
                                                 Param("String64", Str_Fo_01)) >>)) >>,
               << Entry(crc32(Str_Children1),
                        ParameterList(
                          << Entry(crc32(Str_Foo_1),
                                   ParameterObject(<< Entry(crc32(Str_Q01),
                                                            Param("String256", Str_Q01)) >>)) >>,
                          << >>)) >>)),
       Entry(crc32(Str_12), ParameterList(<< >>, << >>)) >>)

\* One object whose key is known only after another document was emitted.
Doc_Small ==
  ParameterIO(2, Str_xml, << Entry(crc32(Str_sCs), NoParams) >>, << >>)

\* One list of the default table with one object whose name is guessed.
Doc_Pair ==
  ParameterIO(3, Str_xml, << >>,
    << Entry(crc32(Str_FooList),
             ParameterList(<< Entry(crc32(Str_Foo_1), NoParams) >>, << >>)) >>)

\* The documents one thread emits one after the other.
Docs == << Doc_Guess, Doc_Strings, Doc_Small >>

\* The documents several threads emit at the same time.
SharedDocs == << Doc_Small, Doc_Pair >>

\* One parameter of every type; the keys are hashes of no known name.
Doc_Types ==
  ParameterIO(U32Mod - 1, Str_12,
    << Entry(600,
         ParameterObject(
           << Entry(601, Param("Bool", TRUE)),
              Entry(602, Param("F32", -15)),
              Entry(603, Param("Int", -3)),
              Entry(604, Param("Vec2", << 0, 5 >>)),
              Entry(605, Param("Vec3", << 10, -5, 25 >>)),
              Entry(606, Param("Vec4", << 1, 2, 3, 4 >>)),
              Entry(607, Param("Color", << 10, 0, 5, 10 >>)),
              Entry(608, Param("String32", Str_true)),
              Entry(609, Param("String64", Str_12)),
              Entry(610, Param("Curve1", [c \in 1..1 |->
                                            [a |-> 1, b |-> U32Mod - 1,
                                             floats |-> [i \in 1..30 |-> i - 15]]])),
              Entry(611, Param("Curve2", [c \in 1..2 |->
                                            [a |-> c, b |-> 0,
                                             floats |-> [i \in 1..30 |-> c * i]]])),
              Entry(612, Param("BufferInt", << -1, 2 >>)),
              Entry(613, Param("BufferF32", << 5 >>)),
              Entry(614, Param("String256", << >>)),
              Entry(615, Param("Quat", << 0, 0, 0, 10 >>)),
              Entry(616, Param("U32", U32Mod - 1)),
              Entry(617, Param("BufferU32", << U32Mod - 1, 0 >>)),
              Entry(618, Param("BufferBinary", << 255, 0 >>)),
              Entry(619, Param("StringRef", Str_N_1)),
              Entry(crc32(Str_12), Param("Int", 0)),
              Entry(crc32(Str_N_1), Param("BufferInt", << >>)),
              Entry(620, Param("Curve3", [c \in 1..3 |->
                                            [a |-> 0, b |-> c,
                                             floats |-> [i \in 1..30 |-> -i]]])),
              Entry(621, Param("Curve4", [c \in 1..4 |->
                                            [a |-> c, b |-> c,
                                             floats |-> [i \in 1..30 |-> 0]]])),
              Entry(crc32(Str_FooList), Param("Bool", FALSE)) >>)) >>,
    << >>)

\* The documents that are emitted and read back.
CodecDocs == << Doc_Types, Doc_Strings, Doc_Guess >>

\* The place of the first EmitName at or after pos, Len(ops) + 1 if none.
NextName(ops, pos) ==
  IF \E k \in pos..Len(ops) : ops[k].op = "EmitName"
  THEN CHOOSE k \in pos..Len(ops) :
         /\ ops[k].op = "EmitName"
         /\ \A j \in pos..(k - 1) : ops[j].op # "EmitName"
  ELSE Len(ops) + 1

\* The events of the operations from..to, none of which is an EmitName.
EventsOf(ops, from, to) == [k \in 1..(to - from + 1) |-> ops[from + k - 1].event]

(***************************************************************************)
(* State.                                                                  *)
(***************************************************************************)
VARIABLES
  table,    \* a NameTable: [names, owned_names, numbered_names]; in the emission
            \* specifications the process-wide default table
  call,     \* the last operation on table: its arguments, the table before it, its result
  memo,     \* the successful GetName calls since the last AddNameReference, in order
  ncalls,   \* number of operations on table so far
  pc,       \* per thread: where its ToText call stands
  pio,      \* per thread: the parameter IO of its ToText call
  m_extra_name_table,  \* per thread: the extra name table of its TextEmitter
  output,   \* per thread: the events its emitter has written
  pos,      \* per thread: the place of its next emitter operation
  calls,    \* per thread: the EmitName calls made so far in its ToText call
  pending,  \* per thread: the name GetName is adding to owned_names
  raced,    \* per thread: its access to owned_names overlapped an insertion
  nemits,   \* per thread: the number of ToText calls it has finished
  param,    \* the parameter given to EmitParameter
  node,     \* the YAML node given to read
  value,    \* what read made of node
  rpc,      \* where the reading of one parameter stands
  result    \* the last text given to FromText and what FromText made of it

ntVars == << table, call, memo, ncalls >>
emitVars == << pc, pio, m_extra_name_table, output, pos, calls, pending, raced, nemits >>
readVars == << param, node, value, rpc, result >>
vars == << table, call, memo, ncalls,
           pc, pio, m_extra_name_table, output, pos, calls, pending, raced, nemits,
           param, node, value, rpc, result >>

\* Number of threads that emit text, and of ToText calls of one thread.
NumThreads == 2
MaxEmits == 2

Threads == 1..NumThreads

NoCall == [op |-> "none"]

\* No thread has called ToText yet.
EmitIdle ==
  /\ pc = [t \in Threads |-> "idle"]
  /\ pio = [t \in Threads |-> ParameterIO(0, << >>, << >>, << >>)]
  /\ m_extra_name_table = [t \in Threads |-> NameTable(FALSE)]
  /\ output = [t \in Threads |-> << >>]
  /\ pos = [t \in Threads |-> 0]
  /\ calls = [t \in Threads |-> << >>]
  /\ pending = [t \in Threads |-> nullopt]
  /\ raced = [t \in Threads |-> FALSE]
  /\ nemits = [t \in Threads |-> 0]

NoParam == Param("none", << >>)
NoNode == [kind |-> "none"]
NoResult == [text |-> << >>, r |-> False]

\* Nothing has been read yet.
ReadIdle ==
  /\ param = NoParam
  /\ node = NoNode
  /\ value = False
  /\ rpc = "none"
  /\ result = NoResult

(***************************************************************************)
(* Spec: a NameTable under GetName and AddNameReference calls.             *)
(***************************************************************************)
HashInputs ==
  { crc32(Str_Foo_1), crc32(Str_Fo_01), crc32(Str_FooList), crc32(Str_N_1),
    crc32(Str_Children1), crc32(Str_Foes1), crc32(Str_Foo_11) }
ParentInputs == { crc32(Str_FooList), crc32(Str_Foes), crc32(Str_Foo_1) }
NameInputs == { Str_FooList, Str_Foes, Str_sCs, Str_Foo_1 }

Init ==
  /\ table \in { NameTable(TRUE), NameTable(FALSE) }
  /\ call = NoCall
  /\ memo = << >>
  /\ ncalls = 0
  /\ EmitIdle
  /\ ReadIdle

DoGetName(hash, index, parent_name_hash) ==
  /\ ncalls < MaxCalls
  /\ \E r \in { GetName(table, hash, index, parent_name_hash) } :
     LET args == << hash, index, parent_name_hash >>
     IN  /\ table' = [table EXCEPT !.owned_names = r.owned_names]
         /\ call' = [op |-> "GetName", hash |-> hash, index |-> index,
                     parent |-> parent_name_hash, before |-> table,
                     ret |-> r.ret, stage |-> r.stage,
                     repeated |-> \E k \in 1..Len(memo) : memo[k].args = args]
         /\ memo' = IF HasValue(r.ret)
                    THEN Append(memo, [args |-> args, ret |-> Value(r.ret), stage |-> r.stage])
                    ELSE memo
  /\ ncalls' = ncalls + 1
  /\ UNCHANGED << emitVars, readVars >>

DoAddNameReference(name) ==
  /\ ncalls < MaxCalls
  /\ table' = AddNameReference(table, name)
  /\ call' = [op |-> "AddNameReference", name |-> name, before |-> table]
  /\ memo' = << >>
  /\ ncalls' = ncalls + 1
  /\ UNCHANGED << emitVars, readVars >>

Next ==
  \/ \E hash \in HashInputs, index \in 0..MaxIndex, parent \in ParentInputs :
       DoGetName(hash, index, parent)
  \/ \E name \in NameInputs : DoAddNameReference(name)

Spec == Init /\ [][Next]_vars

(***************************************************************************)
(* SeqEmitSpec and EmitSpec: ParameterIO::ToText calls, by one thread one  *)
(* call after the other, and by several threads at the same time.  Every   *)
(* thread has its own TextEmitter; GetDefaultNameTable() is the one table  *)
(* they share, and nothing in the code orders their accesses to it.  A     *)
(* ToText call is a sequence of steps: the start (the extra name table is  *)
(* emptied and built), then for each key the lookup in the extra table, if *)
(* that fails the lookup in the default table, and if that guesses a name  *)
(* the insertion into the default table's owned_names.                     *)
(***************************************************************************)
Alive == \A t \in Threads : pc[t] # "crashed"

\* Thread t has finished a ToText call and not started the next.
Finished(t) == pc[t] = "idle" /\ nemits[t] > 0

\* What a thread reads where its bytes were being written.
Str_Garbage == << "?" >>

\* The outcomes of a lookup in owned_names: if an insertion overlapped it,
\* the lookup may have seen the table before or after the insertion, missed
\* an entry, read a string that was being moved, or faulted.
FindOutcomes(was_raced) ==
  IF was_raced THEN { "ok", "miss", "garbage", "crash" } ELSE { "ok" }

\* The outcomes of an insertion into owned_names: if another access
\* overlapped it, the entry may be there, be lost, or have replaced the
\* entries of the other insertion, or the insertion faulted.
AddOutcomes(was_raced) ==
  IF was_raced THEN { "ok", "lost", "dropped", "crash" } ELSE { "ok" }

\* The record of one EmitName call.
CallRecord(op, extra_ret, default_called, default_ret) ==
  [name |-> op.name, index |-> op.index, parent_name |-> op.parent_name,
   extra_ret |-> extra_ret, default_called |-> default_called,
   default_ret |-> default_ret,
   key |-> EmitNameScalar(op.name, extra_ret, default_ret)]

\* Thread t has finished the EmitName call at pos[t] with these results.
Named(t, op, extra_ret, default_called, default_ret) ==
  /\ output' = [output EXCEPT
                  ![t] = Append(@, EmitNameScalar(op.name, extra_ret, default_ret))]
  /\ calls' = [calls EXCEPT
                 ![t] = Append(@, CallRecord(op, extra_ret, default_called, default_ret))]
  /\ pos' = [pos EXCEPT ![t] = @ + 1]
  /\ pc' = [pc EXCEPT ![t] = "emit"]
  /\ pending' = [pending EXCEPT ![t] = nullopt]
  /\ raced' = [raced EXCEPT ![t] = FALSE]

\* ParameterIO::ToText up to EmitParameterIO: a new TextEmitter, whose extra
\* name table Emit empties and builds from the parameter IO.
ToText(t, d) ==
  /\ Alive
  /\ pc[t] = "idle"
  /\ nemits[t] < MaxEmits
  /\ pio' = [pio EXCEPT ![t] = d]
  /\ m_extra_name_table' =
       [m_extra_name_table EXCEPT ![t] = BuildExtraNameTable(d, NameTable(FALSE))]
  /\ output' = [output EXCEPT ![t] = << >>]
  /\ pos' = [pos EXCEPT ![t] = 1]
  /\ calls' = [calls EXCEPT ![t] = << >>]
  /\ pc' = [pc EXCEPT ![t] = "emit"]
  /\ UNCHANGED << ntVars, pending, raced, nemits, readVars >>

\* The threads whose insertion into owned_names is under way.
Adding(t) == { b \in Threads \ { t } : pc[b] = "adding" }

\* The threads that are reading or writing owned_names.
Accessing(t) == { b \in Threads \ { t } : pc[b] \in { "finding", "adding" } }

\* Thread t starts an access that overlaps those of the threads in others.
Overlap(t, others) ==
  IF others = { } THEN raced
  ELSE [b \in Threads |-> raced[b] \/ b = t \/ b \in others]

\* The emitter of thread t writes the events up to the next key and looks the
\* key up in its extra name table; a key found there is written, for any
\* other the thread enters GetName of the default table.  After the last
\* event the ToText call returns.
EmitNameExtra(t) ==
  /\ Alive
  /\ pc[t] = "emit"
  /\ LET ops == EmitterOps(pio[t])
         k == NextName(ops, pos[t])
         out == output[t] \o EventsOf(ops, pos[t], k - 1)
     IN  IF k > Len(ops)
         THEN /\ output' = [output EXCEPT ![t] = out]
              /\ pos' = [pos EXCEPT ![t] = k]
              /\ pc' = [pc EXCEPT ![t] = "idle"]
              /\ nemits' = [nemits EXCEPT ![t] = @ + 1]
              /\ UNCHANGED << m_extra_name_table, calls, pending, raced >>
         ELSE \E r \in { GetName(m_extra_name_table[t], ops[k].name, ops[k].index,
                                 ops[k].parent_name) } :
                /\ m_extra_name_table' =
                     [m_extra_name_table EXCEPT ![t].owned_names = r.owned_names]
                /\ IF HasValue(r.ret)
                   THEN /\ output' = [output EXCEPT
                                        ![t] = Append(out, EmitNameScalar(ops[k].name, r.ret, nullopt))]
                        /\ calls' = [calls EXCEPT
                                       ![t] = Append(@, CallRecord(ops[k], r.ret, FALSE, nullopt))]
                        /\ pos' = [pos EXCEPT ![t] = k + 1]
                        /\ UNCHANGED << pc, raced >>
                   ELSE /\ output' = [output EXCEPT ![t] = out]
                        /\ pos' = [pos EXCEPT ![t] = k]
                        /\ pc' = [pc EXCEPT ![t] = "finding"]
                        /\ raced' = Overlap(t, Adding(t))
                        /\ UNCHANGED calls
                /\ UNCHANGED << pending, nemits >>
  /\ UNCHANGED << ntVars, pio, readVars >>

\* GetName of the default table up to AddName: the lookups in names and
\* owned_names and the guesses.  A name found is written, a name guessed is
\* about to be inserted, and a key without a name is written as its hash.
EmitNameDefaultFind(t) ==
  /\ Alive
  /\ pc[t] = "finding"
  /\ LET op == EmitterOps(pio[t])[pos[t]]
     IN  \E outcome \in FindOutcomes(raced[t]) :
           \E r \in { GetName(IF outcome = "miss"
                              THEN [table EXCEPT !.owned_names = EmptyMap] ELSE table,
                              op.name, op.index, op.parent_name) } :
             IF outcome = "crash"
             THEN /\ pc' = [pc EXCEPT ![t] = "crashed"]
                  /\ UNCHANGED << output, calls, pos, pending, raced >>
             ELSE IF outcome = "garbage" /\ r.stage = 2
             THEN Named(t, op, nullopt, TRUE, Some(Str_Garbage))
             ELSE IF r.stage \in 3..6
             THEN /\ pending' = [pending EXCEPT ![t] = r.ret]
                  /\ pc' = [pc EXCEPT ![t] = "adding"]
                  /\ raced' = Overlap(t, Accessing(t))
                  /\ UNCHANGED << output, calls, pos >>
             ELSE Named(t, op, nullopt, TRUE, r.ret)
  /\ UNCHANGED << ntVars, pio, m_extra_name_table, nemits, readVars >>

\* AddName on the default table: the emplace into owned_names, whose string
\* GetName returns and the emitter writes.
EmitNameDefaultAdd(t) ==
  /\ Alive
  /\ pc[t] = "adding"
  /\ LET op == EmitterOps(pio[t])[pos[t]]
         added == AddName(table.owned_names, op.name, Value(pending[t]))
     IN  \E outcome \in AddOutcomes(raced[t]) :
           CASE outcome = "ok" ->
                  /\ table' = [table EXCEPT !.owned_names = added.owned_names]
                  /\ Named(t, op, nullopt, TRUE, Some(added.ret))
             [] outcome = "lost" ->
                  /\ table' = table
                  /\ Named(t, op, nullopt, TRUE, pending[t])
             [] outcome = "dropped" ->
                  /\ table' = [table EXCEPT !.owned_names = op.name :> Value(pending[t])]
                  /\ Named(t, op, nullopt, TRUE, pending[t])
             [] outcome = "crash" ->
                  /\ table' = table
                  /\ pc' = [pc EXCEPT ![t] = "crashed"]
                  /\ UNCHANGED << output, calls, pos, pending, raced >>
  /\ UNCHANGED << call, memo, ncalls, pio, m_extra_name_table, nemits, readVars >>

\* One step of thread t.
ThreadStep(t, docs) ==
  \/ \E k \in DOMAIN docs : ToText(t, docs[k])
  \/ EmitNameExtra(t)
  \/ EmitNameDefaultFind(t)
  \/ EmitNameDefaultAdd(t)

EmitInit ==
  /\ table = NameTable(TRUE)
  /\ call = NoCall
  /\ memo = << >>
  /\ ncalls = 0
  /\ EmitIdle
  /\ ReadIdle

\* One thread, its ToText calls one after the other.
SeqEmitNext == ThreadStep(1, Docs)

SeqEmitSpec == EmitInit /\ [][SeqEmitNext]_vars

\* Several threads.
EmitNext == \E t \in Threads : ThreadStep(t, SharedDocs)

EmitSpec == EmitInit /\ [][EmitNext]_vars

(***************************************************************************)
(* ReadSpec: one parameter is emitted and read back, or one YAML node is   *)
(* read.  CodecSpec: ToText calls, each followed by FromText of its text.  *)
(***************************************************************************)
\* Largest number of children of a !curve sequence that is read.
MaxCurveChildren == 161

\* Curve c (from 1) of the curves that are emitted: a, b and the floats count
\* on from the place of a in the sequence.
CurveAt(c) ==
  LET base == (c - 1) * NumElementsPerCurve
  IN  [a |-> base, b |-> base + 1,
       floats |-> [i \in 1..(NumElementsPerCurve - 2) |-> base + 1 + i]]

Curves(K) == [c \in 1..K |-> CurveAt(c)]

\* Every U32 and every Int.
IntParams ==
  { Param("U32", v) : v \in 0..(U32Mod - 1) } \cup
  { Param("Int", v) : v \in (-(U32Mod \div 2))..(U32Mod \div 2 - 1) }

OtherParams ==
  << Param("Curve1", Curves(1)), Param("Curve2", Curves(2)),
     Param("Curve3", Curves(3)), Param("Curve4", Curves(4)),
     Param("Bool", FALSE), Param("F32", -15), Param("F32", 20),
     Param("String32", Str_12), Param("StringRef", Str_true),
     Param("Vec3", << 0, 5, -10 >>), Param("BufferU32", << U32Mod - 1 >>) >>

\* A !curve sequence of n children: a and b of each curve integers and the
\* rest floats, or integers throughout.
CurveNode(n, with_floats) ==
  SeqNode("!curve",
          [j \in 1..n |->
             IF with_floats /\ (j - 1) % NumElementsPerCurve \notin { 0, 1 }
             THEN ValNode("", FormatFloat(j - 1), FALSE)
             ELSE ValNode("", Decimal(j - 1), FALSE)])

\* The integers read as scalars, with and without the tag !u.
IntTexts == { -1, 0, 1, U32Mod \div 2, U32Mod - 1, U32Mod, U32Mod + 5 }

CurveNodes ==
  { CurveNode(n, with_floats) : n \in 0..MaxCurveChildren, with_floats \in BOOLEAN }

IntNodes == { ValNode(tag, FormatInt(v, 0), FALSE) : tag \in { "!u", "" }, v \in IntTexts }

\* Buffers of one and of two of these integers.
BufferNodes ==
  { SeqNode(tag, << ValNode("", FormatInt(v, 0), FALSE) >>) :
      tag \in { "!buffer_int", "!buffer_u32", "!buffer_binary" }, v \in IntTexts } \cup
  { SeqNode(tag, << ValNode("", FormatInt(v, 0), FALSE),
                    ValNode("", FormatInt(U32Mod - v, 0), FALSE) >>) :
      tag \in { "!buffer_int", "!buffer_u32", "!buffer_binary" }, v \in IntTexts }

ReadInit ==
  /\ table = NameTable(TRUE)
  /\ call = NoCall
  /\ memo = << >>
  /\ ncalls = 0
  /\ EmitIdle
  /\ value = False
  /\ result = NoResult
  /\ \/ param \in IntParams /\ node = NoNode /\ rpc = "param"
     \/ \E k \in DOMAIN OtherParams :
          param = OtherParams[k] /\ node = NoNode /\ rpc = "param"
     \/ param = NoParam /\ node \in CurveNodes /\ rpc = "node"
     \/ param = NoParam /\ node \in IntNodes /\ rpc = "node"
     \/ param = NoParam /\ node \in BufferNodes /\ rpc = "node"

\* EmitParameter, and the node ryml makes of what it wrote.
DoEmitParameter ==
  /\ rpc = "param"
  /\ node' = ParseNode(EmitParameter(param), 1).node
  /\ rpc' = "node"
  /\ UNCHANGED << ntVars, emitVars, param, value, result >>

\* read(node, Parameter*)
DoReadParameter ==
  /\ rpc = "node"
  /\ value' = ReadParameter(node)
  /\ rpc' = "read"
  /\ UNCHANGED << ntVars, emitVars, param, node, result >>

ReadNext == DoEmitParameter \/ DoReadParameter

ReadSpec == ReadInit /\ [][ReadNext]_vars

\* ParameterIO::FromText of the text of the last finished ToText call.
DoFromText ==
  /\ Finished(1)
  /\ result.text # output[1]
  /\ result' = [text |-> output[1], r |-> FromText(output[1])]
  /\ UNCHANGED << ntVars, emitVars, param, node, value, rpc >>

CodecNext == ThreadStep(1, CodecDocs) \/ DoFromText

CodecSpec == EmitInit /\ [][CodecNext]_vars


(***************************************************************************)
(* FaultSpec: FromText of documents that hold an invalid entry, and the    *)
(* read() overloads on the nodes of such documents.                        *)
(***************************************************************************)
\* read(node, T* v): what it returns or throws, and *v afterwards.  Every
\* overload assigns *v in its last statement before return true, so that *v
\* is the structure read if the read returned true, and is as it was if the
\* read returned false or threw.
ReadInto(T, child, v) ==
  LET Assigned(r) == [ret |-> r.status, v |-> IF r.status = "ok" THEN r.v ELSE v]
  IN  Assigned(CASE T = "Parameter" -> ReadParameter(child)
                 [] T = "ParameterObject" -> ReadParameterObject(child)
                 [] T = "ParameterList" -> ReadParameterList(child)
                 [] T = "ParameterIO" -> ReadParameterIO(child))

\* An entry of a mapping of parameters as it stands in a text: the scalar of
\* the key, the events of the value, and the error its read ends with.
FaultEntry(key, events, error) == [key |-> key, events |-> events, error |-> error]

Floats(n) == [k \in 1..n |-> EmitFloat(5 * k)]

Sequence(tag, scalars) == << SequenceStart(tag) >> \o scalars \o << SequenceEnd >>

\* Entries without an error, entries with the errors of a sequence tag, of a
\* number of children, of a null scalar and of a key's type, and entries whose
\* read ends otherwise: a child of another type, a mapping as a parameter.
FaultEntries ==
  << FaultEntry(EmitInt(700, ""), Sequence("!vec2", Floats(2)), "none"),
     FaultEntry(EmitString(Str_Foes, ""), << EmitInt(5, "!u") >>, "none"),
     FaultEntry(EmitInt(701, ""), Sequence("", Floats(2)), "InvalidDataError"),
     FaultEntry(EmitInt(702, ""), Sequence("!vec5", Floats(5)), "InvalidDataError"),
     FaultEntry(EmitInt(703, ""), Sequence("!vec2", Floats(3)), "InvalidDataError"),
     FaultEntry(EmitInt(704, ""), Sequence("!vec3", Floats(2)), "InvalidDataError"),
     FaultEntry(EmitInt(705, ""), Sequence("!vec4", Floats(3)), "InvalidDataError"),
     FaultEntry(EmitInt(706, ""), Sequence("!color", Floats(5)), "InvalidDataError"),
     FaultEntry(EmitInt(707, ""), Sequence("!quat", Floats(0)), "InvalidDataError"),
     FaultEntry(EmitInt(708, ""), Sequence("!curve", Floats(48)), "InvalidDataError"),
     FaultEntry(EmitInt(709, ""), Sequence("!curve", Floats(0)), "InvalidDataError"),
     FaultEntry(EmitInt(710, ""), << ScalarEvent("", Str_null, FALSE) >>,
                "InvalidDataError"),
     FaultEntry(EmitInt(711, ""), << ScalarEvent("", Str_tilde, FALSE) >>,
                "InvalidDataError"),
     FaultEntry(EmitInt(712, ""), << ScalarEvent("", << >>, FALSE) >>,
                "InvalidDataError"),
     FaultEntry(EmitBool(TRUE), << EmitInt(1, "") >>, "InvalidDataError"),
     FaultEntry(EmitFloat(15), << EmitInt(1, "") >>, "InvalidDataError"),
     FaultEntry(ScalarEvent("", Str_tilde, FALSE), Sequence("!vec2", Floats(2)),
                "InvalidDataError"),
     FaultEntry(EmitInt(713, ""), Sequence("!vec2", << EmitInt(1, ""), EmitInt(2, "") >>),
                "bad_variant_access"),
     FaultEntry(EmitInt(714, ""), << MappingStart(""), MappingEnd >>, "RymlError") >>

EntryEvents(e) == << e.key >> \o e.events

\* The text of a document with entry a between two parameters of the object
\* 600 of the root, and entry b in the object 601 of the list 650.
FaultDoc(a, b) ==
  << StreamStart, DocumentStart, MappingStart("!io"),
     EmitString(Str_version, ""), EmitInt(0, ""),
     EmitString(Str_type, ""), EmitString(Str_xml, ""),
     EmitString(Str_param_root, ""), MappingStart("!list"),
     EmitString(Str_objects, ""), MappingStart(""),
     EmitInt(600, ""), MappingStart("!obj"),
     EmitInt(610, ""), EmitBool(TRUE) >> \o
  EntryEvents(FaultEntries[a]) \o
  << EmitInt(611, ""), EmitFloat(5),
     MappingEnd, MappingEnd,
     EmitString(Str_lists, ""), MappingStart(""),
     EmitInt(650, ""), MappingStart("!list"),
     EmitString(Str_objects, ""), MappingStart(""),
     EmitInt(601, ""), MappingStart("!obj") >> \o
  EntryEvents(FaultEntries[b]) \o
  << MappingEnd, MappingEnd,
     EmitString(Str_lists, ""), MappingStart(""), MappingEnd,
     MappingEnd, MappingEnd, MappingEnd, MappingEnd,
     DocumentEnd, StreamEnd >>

\* The structures read() is called with in FromText of a document, down to
\* the entry of the object 600: the node and the type read from it.
ReadTypes == << "ParameterIO", "ParameterList", "ParameterObject", "Parameter" >>

NodeRead(T, root) ==
  CASE T = "ParameterIO" -> root
    [] T = "ParameterList" -> Child(root, Str_param_root)
    [] T = "ParameterObject" ->
         Child(Child(root, Str_param_root), Str_objects).children[1].node
    [] T = "Parameter" ->
         Child(Child(root, Str_param_root), Str_objects).children[1].node.children[2].node

\* What *v holds before the read.
Before(T) ==
  CASE T = "ParameterIO" -> Doc_Small
    [] T = "ParameterList" -> ParameterList(Doc_Small.objects, Doc_Small.lists)
    [] T = "ParameterObject" -> ParameterObject(<< Entry(1, Param("Int", 1)) >>)
    [] T = "Parameter" -> Param("Int", 1)

FaultInit ==
  /\ table = NameTable(TRUE)
  /\ call = NoCall
  /\ memo = << >>
  /\ ncalls = 0
  /\ EmitIdle
  /\ param = NoParam
  /\ node = NoNode
  /\ value = False
  /\ rpc = "text"
  /\ \E a \in DOMAIN FaultEntries, b \in DOMAIN FaultEntries :
       result = [text |-> FaultDoc(a, b), r |-> False]

\* ParameterIO::FromText(yml_text)
FaultFromText ==
  /\ rpc = "text"
  /\ result' = [text |-> result.text, r |-> FromText(result.text)]
  /\ rpc' = "from_text"
  /\ UNCHANGED << ntVars, emitVars, param, node, value >>

\* read(node, &v) for one of the structures of the document.
FaultRead ==
  /\ rpc = "text"
  /\ \E k \in DOMAIN ReadTypes :
       /\ node' = NodeRead(ReadTypes[k], Parse(result.text))
       /\ param' = [T |-> ReadTypes[k], v |-> Before(ReadTypes[k])]
       /\ value' = ReadInto(ReadTypes[k], node', param'.v)
  /\ rpc' = "read_into"
  /\ UNCHANGED << ntVars, emitVars, result >>

FaultNext == FaultFromText \/ FaultRead

FaultSpec == FaultInit /\ [][FaultNext]_vars

(***************************************************************************)
(* Properties of NameTable::GetName, stated on the last call: its          *)
(* arguments, the table before it (call.before) and what it returned.      *)
(***************************************************************************)
IsGetName == call.op = "GetName"

Range(seq) == { seq[k] : k \in 1..Len(seq) }

\* The six patterns and the three suffixes, in the order the resolution
\* order names them.
Patterns ==
  << << "%s", "%d" >>, << "%s", "_", "%d" >>, << "%s", "%02d" >>,
     << "%s", "_", "%02d" >>, << "%s", "%03d" >>, << "%s", "_", "%03d" >> >>
StrippedSuffixes == << << "s" >>, << "e", "s" >>, << "L", "i", "s", "t" >> >>

\* The n-th name tried for a prefix: i = index before i = index + 1, and for
\* one i the patterns in order.
Candidate(prefix, index, n) ==
  StrFormat(Patterns[((n - 1) % Len(Patterns)) + 1],
            << prefix, index + ((n - 1) \div Len(Patterns)) >>)

\* The names the six patterns give for a prefix and i in {index, index + 1}.
CandidateSet(prefix, index) ==
  { Candidate(prefix, index, n) : n \in 1..(2 * Len(Patterns)) }

PrefixMatches(prefix, hash, index) ==
  \E c \in CandidateSet(prefix, index) : crc32(c) = hash

Strip(name, suffix) == SubSeq(name, 1, Len(name) - Len(suffix))

\* The suffixes of the list that the name ends with and whose stripped name
\* has a candidate for the hash.
MatchingSuffixes(name, hash, index) ==
  { k \in 1..Len(StrippedSuffixes) :
      /\ EndsWith(name, StrippedSuffixes[k])
      /\ PrefixMatches(Strip(name, StrippedSuffixes[k]), hash, index) }

NumberedSet(numbered_names, index) ==
  { StrFormat(numbered_names[k], << i >>) :
      k \in 1..Len(numbered_names), i \in 0..(index + 1) }

\* Whether stage n of the resolution order matches for the last call.
StageMatches(n) ==
  LET t == call.before
      resolves == call.parent \in DOMAIN t.names
  IN  CASE n = 1 -> call.hash \in DOMAIN t.names
        [] n = 2 -> call.hash \in DOMAIN t.owned_names
        [] n = 3 -> resolves /\ PrefixMatches(t.names[call.parent], call.hash, call.index)
        [] n = 4 -> resolves /\ PrefixMatches(Str_Children, call.hash, call.index)
        [] n = 5 -> resolves /\ MatchingSuffixes(t.names[call.parent], call.hash, call.index) # {}
        [] n = 6 -> \E c \in NumberedSet(t.numbered_names, call.index) : crc32(c) = call.hash
        [] n = 7 -> TRUE

FirstStage == CHOOSE n \in 1..7 : StageMatches(n) /\ \A m \in 1..(n - 1) : ~StageMatches(m)

\* Whether the returned value is a result of stage n.
ResultOfStage(n) ==
  LET t == call.before
      P == t.names[call.parent]
      first_suffix == CHOOSE k \in MatchingSuffixes(P, call.hash, call.index) :
                        \A j \in MatchingSuffixes(P, call.hash, call.index) : k <= j
  IN  CASE n = 1 -> call.ret = Some(t.names[call.hash])
        [] n = 2 -> call.ret = Some(t.owned_names[call.hash])
        [] n = 3 -> /\ HasValue(call.ret)
                    /\ Value(call.ret) \in CandidateSet(P, call.index)
        [] n = 4 -> /\ HasValue(call.ret)
                    /\ Value(call.ret) \in CandidateSet(Str_Children, call.index)
        [] n = 5 -> /\ HasValue(call.ret)
                    /\ Value(call.ret)
                         \in CandidateSet(Strip(P, StrippedSuffixes[first_suffix]), call.index)
        [] n = 6 -> /\ HasValue(call.ret)
                    /\ Value(call.ret) \in NumberedSet(t.numbered_names, call.index)
        [] n = 7 -> call.ret = nullopt

\* C1: GetName answers from the first stage that matches, in the order
\* names, owned_names, parent name as prefix, "Children" as prefix, parent
\* name stripped of "s", "es", "List", numbered_names, none; a guessed name
\* hashes to the requested hash; a hash present in names is answered from
\* names.
C1_ResolutionOrder ==
  IsGetName =>
    /\ call.stage = FirstStage
    /\ ResultOfStage(FirstStage)
    /\ HasValue(call.ret) => crc32(Value(call.ret)) = call.hash
    /\ call.hash \in DOMAIN call.before.names
         => call.ret = Some(call.before.names[call.hash])

\* C1 witness: a call whose hash is in names and in owned_names under
\* different strings, for which a guess would match too, answered from names.
C1_Witness ==
  /\ IsGetName
  /\ call.hash \in DOMAIN call.before.names
  /\ call.hash \in DOMAIN call.before.owned_names
  /\ call.before.names[call.hash] # call.before.owned_names[call.hash]
  /\ StageMatches(5)
  /\ call.ret = Some(call.before.names[call.hash])


\* The first successful call since the last AddNameReference that had the
\* arguments of the last call.
FirstWithArgs ==
  LET args == << call.hash, call.index, call.parent >>
  IN  memo[CHOOSE k \in 1..Len(memo) :
             /\ memo[k].args = args
             /\ \A j \in 1..(k - 1) : memo[j].args # args]

\* C2: once GetName has returned a string for (hash, index, parent), a later
\* call with the same arguments, with only GetName calls in between, returns
\* the same string and is answered by a direct lookup (stage 1 or 2); a
\* guessed name is in owned_names after the call.
C2_Memoization ==
  /\ (IsGetName /\ call.repeated) =>
       /\ call.ret = Some(FirstWithArgs.ret)
       /\ call.stage \in { 1, 2 }
  /\ (IsGetName /\ call.stage \in 3..6) =>
       /\ call.hash \in DOMAIN table.owned_names
       /\ Some(table.owned_names[call.hash]) = call.ret

\* C2 witness: a name found by guessing, another successful GetName call,
\* then the first call again, answered from owned_names.
C2_Witness ==
  /\ IsGetName
  /\ call.repeated
  /\ Len(memo) = 3
  /\ memo[1].args = << call.hash, call.index, call.parent >>
  /\ memo[1].stage \in 3..6
  /\ memo[2].args # memo[1].args
  /\ call.stage = 2
  /\ call.ret = Some(memo[1].ret)

(***************************************************************************)
(* C3: name recovery through the parent's name without its suffix.         *)
(***************************************************************************)
\* The case of the claim for the last call and a candidate: the parent hash
\* is a key of names, its name ends with the suffix, the candidate is a
\* pattern applied to the stripped name and i in {index, index + 1}, its
\* crc32 is the hash, the hash is in neither dictionary, and stages 3 and 4
\* do not match.
RecoveryCase(k, c) ==
  LET t == call.before
  IN  /\ IsGetName
      /\ call.parent \in DOMAIN t.names
      /\ EndsWith(t.names[call.parent], StrippedSuffixes[k])
      /\ c \in CandidateSet(Strip(t.names[call.parent], StrippedSuffixes[k]), call.index)
      /\ crc32(c) = call.hash
      /\ \A n \in 1..4 : ~StageMatches(n)

\* The candidates of stage 5 for the last call.
RecoveryCandidates(k) ==
  CandidateSet(Strip(call.before.names[call.parent], StrippedSuffixes[k]), call.index)

\* The first place of a name among the candidates for a prefix.
PlaceOf(prefix, index, c) ==
  CHOOSE n \in 1..(2 * Len(Patterns)) :
    /\ Candidate(prefix, index, n) = c
    /\ \A m \in 1..(n - 1) : Candidate(prefix, index, m) # c

\* No candidate tried before c in stage 5 (an earlier suffix, or for the same
\* stripped name an earlier i or pattern) has the hash of c.
NoEarlierCandidate(k, c) ==
  LET P == call.before.names[call.parent]
      prefix == Strip(P, StrippedSuffixes[k])
  IN  /\ \A j \in 1..(k - 1) :
           EndsWith(P, StrippedSuffixes[j]) =>
             ~PrefixMatches(Strip(P, StrippedSuffixes[j]), call.hash, call.index)
      /\ \A m \in 1..(PlaceOf(prefix, call.index, c) - 1) :
           crc32(Candidate(prefix, call.index, m)) # call.hash

\* C3 as stated: in the case of the claim GetName returns exactly the
\* candidate.
C3_ReturnsThatCandidate ==
  \A k \in 1..Len(StrippedSuffixes) :
    (IsGetName /\ call.parent \in DOMAIN call.before.names) =>
      \A c \in RecoveryCandidates(k) : RecoveryCase(k, c) => call.ret = Some(c)

\* C3 amended: in the case of the claim, and when no candidate tried earlier
\* in stage 5 has the same crc32, GetName returns exactly the candidate; in
\* every case of the claim it returns a candidate of stage 5 with that crc32.
C3_ReturnsFirstCandidate ==
  \A k \in 1..Len(StrippedSuffixes) :
    (IsGetName /\ call.parent \in DOMAIN call.before.names) =>
      \A c \in RecoveryCandidates(k) :
        RecoveryCase(k, c) =>
          /\ NoEarlierCandidate(k, c) => call.ret = Some(c)
          /\ HasValue(call.ret)
          /\ crc32(Value(call.ret)) = call.hash
          /\ \E j \in 1..Len(StrippedSuffixes) :
               /\ EndsWith(call.before.names[call.parent], StrippedSuffixes[j])
               /\ Value(call.ret) \in RecoveryCandidates(j)

\* C3 witness: GetName(crc32("Foo_1"), 1, crc32("FooList")) with "FooList" in
\* names and no entry for the hash returns "Foo_1".
C3_Witness ==
  /\ IsGetName
  /\ call.hash = crc32(Str_Foo_1)
  /\ call.index = 1
  /\ call.parent = crc32(Str_FooList)
  /\ call.parent \in DOMAIN call.before.names
  /\ call.before.names[call.parent] = Str_FooList
  /\ RecoveryCase(3, Str_Foo_1)
  /\ call.ret = Some(Str_Foo_1)
  /\ call.stage = 5

(***************************************************************************)
(* Key emission.                                                           *)
(***************************************************************************)
\* The key at place k of a map, with the key hash of what encloses the map.
KeySite(map, k, enclosing) ==
  [name |-> map[k].name, index |-> k - 1, parent_name |-> enclosing]

KeysOfMap(map, enclosing) == { KeySite(map, k, enclosing) : k \in DOMAIN map }

RECURSIVE KeysOfList(_, _)
\* The keys of a list and of everything below it.
KeysOfList(list, key) ==
  KeysOfMap(list.objects, key) \cup KeysOfMap(list.lists, key) \cup
  UNION { KeysOfMap(list.objects[k].v.params, list.objects[k].name) :
            k \in DOMAIN list.objects } \cup
  UNION { KeysOfList(list.lists[k].v, list.lists[k].name) : k \in DOMAIN list.lists }

RECURSIVE SumOver(_, _)
SumOver(f, k) == IF k = 0 THEN 0 ELSE f[k] + SumOver(f, k - 1)

RECURSIVE KeyCount(_)
\* The number of keys of a list and of everything below it.
KeyCount(list) ==
  Len(list.objects) + Len(list.lists) +
  SumOver([k \in DOMAIN list.objects |-> Len(list.objects[k].v.params)],
          Len(list.objects)) +
  SumOver([k \in DOMAIN list.lists |-> KeyCount(list.lists[k].v)], Len(list.lists))

ArgsOf(c) == [name |-> c.name, index |-> c.index, parent_name |-> c.parent_name]

\* The scalar is the untagged string s.
IsStringKey(e, s) == e.ev = "scalar" /\ e.tag = "" /\ e.text = s

\* The scalar is the untagged plain integer n.
IsIntKey(e, n) == e.ev = "scalar" /\ e.tag = "" /\ ~e.quoted /\ e.text = Decimal(n)

\* What EmitName wrote agrees with what the two lookups returned.
EmittedAsLookedUp(c) ==
  /\ HasValue(c.extra_ret) => ~c.default_called /\ IsStringKey(c.key, Value(c.extra_ret))
  /\ ~HasValue(c.extra_ret) =>
       /\ c.default_called
       /\ HasValue(c.default_ret) => IsStringKey(c.key, Value(c.default_ret))
       /\ ~HasValue(c.default_ret) => IsIntKey(c.key, c.name)

\* C4: every EmitName call of a ToText call has the arguments of one key of the
\* document, the key's hash, its 0-based place in its own map and the key hash
\* of the enclosing list or object (ParamRootKey at the root); a finished call
\* has made exactly one EmitName call per key; and each call wrote the string
\* of the extra table if it had one, else the string of the default table if it
\* had one, else the hash as an integer.
C4_KeyEmission ==
  \A t \in Threads :
    /\ \A k \in DOMAIN calls[t] :
         /\ ArgsOf(calls[t][k]) \in KeysOfList(pio[t], ParamRootKey)
         /\ EmittedAsLookedUp(calls[t][k])
         /\ calls[t][k].key \in Range(output[t])
    /\ Finished(t) =>
         /\ { ArgsOf(calls[t][k]) : k \in DOMAIN calls[t] } = KeysOfList(pio[t], ParamRootKey)
         /\ Len(calls[t]) = KeyCount(pio[t])

\* C4 witness: a finished ToText call of Doc_Strings, in which a key was written
\* from the extra table, one from the default table and one as its hash, the
\* last being at place 1 of the root's lists.
C4_Witness ==
  /\ Finished(1)
  /\ pio[1] = Doc_Strings
  /\ \E a, b, c \in Range(calls[1]) :
       /\ HasValue(a.extra_ret)
       /\ ~HasValue(b.extra_ret) /\ HasValue(b.default_ret)
       /\ ~HasValue(c.extra_ret) /\ ~HasValue(c.default_ret)
       /\ ArgsOf(c) = [name |-> crc32(Str_12), index |-> 1, parent_name |-> ParamRootKey]
       /\ IsIntKey(c.key, crc32(Str_12))

(***************************************************************************)
(* The extra name table.                                                   *)
(***************************************************************************)
StringsOfObject(obj) ==
  { obj.params[k].v.v :
      k \in { j \in DOMAIN obj.params :
                obj.params[j].v.type \in { "StringRef", "String32", "String64", "String256" } } }

RECURSIVE StringsOfList(_)
\* The values of the string parameters of a list and of everything below it.
StringsOfList(list) ==
  UNION { StringsOfObject(list.objects[k].v) : k \in DOMAIN list.objects } \cup
  UNION { StringsOfList(list.lists[k].v) : k \in DOMAIN list.lists }

\* Thread t is in a ToText call or has finished one.
Started(t) == pc[t] # "idle" \/ nemits[t] > 0

\* C5: from the start of the emission of a document, before its first key, the
\* names of the emitter's extra table hold crc32(s) for the value s of every
\* string parameter at any depth of the document, and hold nothing else, so no
\* name of another document.
C5_ExtraNameTable ==
  \A t \in Threads :
    Started(t) =>
      LET names == m_extra_name_table[t].names
      IN  /\ \A s \in StringsOfList(pio[t]) : crc32(s) \in DOMAIN names
          /\ \A h \in DOMAIN names : names[h] \in StringsOfList(pio[t]) /\ crc32(names[h]) = h

\* C5 witness: the second ToText call of a thread is about to emit the first key
\* of Doc_Strings; the string of the list nested twice is in the extra table.
C5_Witness ==
  /\ nemits[1] = 1
  /\ pc[1] = "emit"
  /\ pio[1] = Doc_Strings
  /\ calls[1] = << >>
  /\ crc32(Str_Q01) \in DOMAIN m_extra_name_table[1].names

(***************************************************************************)
(* The default name table.                                                 *)
(***************************************************************************)
\* C6 as stated: no thread is inserting into the default table's owned_names
\* while another thread is reading it or inserting into it.
C6_MutualExclusion ==
  \A a, b \in Threads :
    a # b => ~(pc[a] = "adding" /\ pc[b] \in { "finding", "adding" })

\* C7: no step of a ToText call changes names or numbered_names of the default
\* table, and every entry of its owned_names stays as it is.
C7_DefaultTableFrame ==
  [][/\ table'.names = table.names
     /\ table'.numbered_names = table.numbered_names
     /\ \A h \in DOMAIN table.owned_names :
          /\ h \in DOMAIN table'.owned_names
          /\ table'.owned_names[h] = table.owned_names[h]]_vars

\* C7 witness: after ToText calls that registered the strings of Doc_Strings and
\* guessed names, owned_names has grown and names is as it was built.
C7_Witness ==
  /\ Finished(1)
  /\ nemits[1] = 2
  /\ pio[1] = Doc_Strings
  /\ crc32(Str_sCs) \in DOMAIN m_extra_name_table[1].names
  /\ table.names = NameTable(TRUE).names
  /\ crc32(Str_sCs) \notin DOMAIN table.names
  /\ Cardinality(DOMAIN table.owned_names) > 2

(***************************************************************************)
(* C8: the number of children of a !curve sequence selects the curve type.  *)
(***************************************************************************)
\* The !curve sequence that has been read.
IsCurveRead == rpc = "read" /\ node.kind = "seq" /\ node.tag = "!curve"

\* Child j (from 1) of the sequence is a plain scalar of the type its place
\* asks for: an integer for a and b, a float elsewhere.
WellTypedChild(j) ==
  /\ node.children[j].kind = "val"
  /\ node.children[j].tag = ""
  /\ ~node.children[j].quoted
  /\ IF (j - 1) % NumElementsPerCurve \in { 0, 1 }
     THEN IsIntText(node.children[j].text)
          /\ ParseInt(node.children[j].text) < U32Mod
     ELSE IsFloatText(node.children[j].text)

\* The number of child j.
NumberOfChild(j) ==
  IF (j - 1) % NumElementsPerCurve \in { 0, 1 }
  THEN ParseInt(node.children[j].text)
  ELSE ParseFloat(node.children[j].text)

CurveTypes == << "Curve1", "Curve2", "Curve3", "Curve4" >>

\* C8: a !curve sequence of 32*K children, K in 1..4, whose children are a, b
\* and 30 floats for each curve, is read as the K curves of the type Curve[K],
\* curve c taking the children 32*(c-1)+1 .. 32*c in their order; a sequence
\* of any other number of children, whatever they are, fails with
\* InvalidDataError.
C8_CurveLengthSelection ==
  IsCurveRead =>
    LET n == Len(node.children)
        K == n \div NumElementsPerCurve
    IN  IF n % NumElementsPerCurve = 0 /\ K \in 1..4
        THEN (\A j \in 1..n : WellTypedChild(j)) =>
               /\ value.status = "ok"
               /\ value.v.type = CurveTypes[K]
               /\ Len(value.v.v) = K
               /\ \A c \in 1..K :
                    /\ value.v.v[c].a = NumberOfChild((c - 1) * NumElementsPerCurve + 1)
                    /\ value.v.v[c].b = NumberOfChild((c - 1) * NumElementsPerCurve + 2)
                    /\ Len(value.v.v[c].floats) = NumElementsPerCurve - 2
                    /\ \A i \in 1..(NumElementsPerCurve - 2) :
                         value.v.v[c].floats[i] =
                           NumberOfChild((c - 1) * NumElementsPerCurve + 2 + i)
        ELSE value = Throw("InvalidDataError")

\* C8 witness: a sequence of 64 well-typed children has been read as Curve2.
C8_Witness ==
  /\ IsCurveRead
  /\ param = NoParam
  /\ Len(node.children) = 2 * NumElementsPerCurve
  /\ \A j \in 1..Len(node.children) : WellTypedChild(j)
  /\ value.status = "ok"
  /\ value.v.type = "Curve2"
  /\ value.v.v[2].a = NumElementsPerCurve

(***************************************************************************)
(* C9: U32 and Int are told apart by the tag !u.                           *)
(***************************************************************************)
\* The scalar node of an integer that has been read.
IsIntScalarRead ==
  rpc = "read" /\ node.kind = "val" /\ ~node.quoted /\ IsIntText(node.text)

\* C9: a U32 parameter is emitted as an integer scalar with the tag !u; an
\* integer scalar with the tag !u is read as a U32 and one without a tag as an
\* Int; and the read of what was emitted for a U32 or an Int is the parameter
\* itself, for every value of the width.
C9_U32Preservation ==
  /\ (rpc \in { "node", "read" } /\ param.type = "U32") =>
       /\ node.kind = "val"
       /\ node.tag = "!u"
       /\ ~node.quoted
       /\ node.text = Decimal(param.v)
  /\ (IsIntScalarRead /\ node.tag = "!u") =>
       value.status = "ok" /\ value.v.type = "U32"
  /\ (IsIntScalarRead /\ node.tag = "") =>
       value.status = "ok" /\ value.v.type = "Int"
  /\ (rpc = "read" /\ param.type \in { "U32", "Int" }) => value = Ok(param)

\* C9 witness: the largest U32 has been emitted and read back as a U32.
C9_Witness ==
  /\ rpc = "read"
  /\ param.type = "U32"
  /\ param.v = U32Mod - 1
  /\ node.tag = "!u"
  /\ value = Ok(Param("U32", U32Mod - 1))

(***************************************************************************)
(* C10: FromText of the text of ToText is the document.                    *)
(***************************************************************************)
\* FromText has read the text of the document of the last ToText call.
IsRoundTrip == Finished(1) /\ result # NoResult /\ result.text = output[1]

\* C10: FromText(ToText(t)) returns t: the version, the type, the entries of
\* every map under their hashes, and every parameter with its type and value.
C10_RoundTrip == IsRoundTrip => result.r = Ok(pio[1])

\* C10 witness: the document with a parameter of every type, whose keys were
\* emitted as names and as integers, has been read back.
C10_Witness ==
  /\ IsRoundTrip
  /\ pio[1] = Doc_Types
  /\ result.r.status = "ok"
  /\ result.r.v.version = U32Mod - 1
  /\ \E k \in DOMAIN calls[1] : IsIntKey(calls[1][k].key, calls[1][k].name)
  /\ \E k \in DOMAIN calls[1] : HasValue(calls[1][k].extra_ret)
  /\ \E k \in DOMAIN calls[1] :
       calls[1][k].default_called /\ HasValue(calls[1][k].default_ret)

(***************************************************************************)
(* C11: a document with an invalid entry is not read in part.              *)
(***************************************************************************)
\* The error that the read of a document with the entries a and b meets
\* first: the object 600 is read before the list 650.
FirstError(a, b) ==
  IF FaultEntries[a].error # "none" THEN FaultEntries[a].error
  ELSE FaultEntries[b].error

\* The error that read() of a T meets in the document: the parameter is the
\* value of entry a, the object holds entry a, the list and the IO hold both.
ErrorRead(T, a, b) ==
  CASE T = "Parameter" ->
         IF FaultEntries[a].key.tag = "" /\ PlainType(FaultEntries[a].key.text) = "int"
         THEN FaultEntries[a].error ELSE "none"
    [] T = "ParameterObject" -> FaultEntries[a].error
    [] OTHER -> FirstError(a, b)

\* C11: FromText of a text in which an entry has a sequence tag that is
\* missing or unknown, a wrong number of children for its tag, a null scalar
\* or a key that is neither an integer nor a string throws InvalidDataError;
\* whatever error the read meets, FromText returns no tree; and a read() that
\* does not return true leaves *v as it was before the call.
C11_NoPartialTrees ==
  /\ rpc = "from_text" =>
       \A a \in DOMAIN FaultEntries, b \in DOMAIN FaultEntries :
         result.text = FaultDoc(a, b) =>
           /\ FirstError(a, b) = "InvalidDataError" =>
                result.r = Throw("InvalidDataError")
           /\ FirstError(a, b) # "none" =>
                result.r.status # "ok" /\ DOMAIN result.r = { "status" }
           /\ FirstError(a, b) = "none" => result.r.status = "ok"
  /\ rpc = "read_into" =>
       /\ value.ret # "ok" => value.v = param.v
       /\ \A a \in DOMAIN FaultEntries, b \in DOMAIN FaultEntries :
            result.text = FaultDoc(a, b) =>
              /\ ErrorRead(param.T, a, b) = "InvalidDataError" =>
                   value.ret = "InvalidDataError"
              /\ ErrorRead(param.T, a, b) = "none" <=> value.ret = "ok"

\* C11 witness: a !curve of 48 children in the nested list, after an object
\* that was read without an error, has made FromText throw.
C11_Witness ==
  /\ rpc = "from_text"
  /\ result.text = FaultDoc(1, 10)
  /\ result.r = Throw("InvalidDataError")

(***************************************************************************)
(* C12: the parent's name in the guessing stages.                          *)
(***************************************************************************)
\* The name the parent hash of the last call resolves to by a lookup in
\* names or in owned_names, if there is one.
ParentName ==
  IF call.parent \in DOMAIN call.before.names
  THEN Some(call.before.names[call.parent])
  ELSE IF call.parent \in DOMAIN call.before.owned_names
  THEN Some(call.before.owned_names[call.parent])
  ELSE nullopt

\* A name derived from the parent name P hashes to the requested hash.
ParentDerivedMatch(P) ==
  \/ PrefixMatches(P, call.hash, call.index)
  \/ PrefixMatches(Str_Children, call.hash, call.index)
  \/ MatchingSuffixes(P, call.hash, call.index) # { }

\* C12: if the hash of a GetName call is in neither map and its parent hash
\* resolves to a name P in names or in owned_names, the names derived from P
\* are tried: when one of them hashes to the requested hash, the call answers
\* from the stages 3 to 5.
C12_ParentResolvedInEitherMap ==
  ( /\ IsGetName
    /\ call.hash \notin DOMAIN call.before.names
    /\ call.hash \notin DOMAIN call.before.owned_names
    /\ HasValue(ParentName)
    /\ ParentDerivedMatch(Value(ParentName)) )
  => /\ call.stage \in { 3, 4, 5 }
     /\ HasValue(call.ret)

(***************************************************************************)
(* C13: the numbered names as the last resort.                             *)
(***************************************************************************)
\* The places (k, i) of the numbered names tried for the last call: format k
\* of numbered_names with the number i, 0 <= i <= index + 1.
NumberedPlaces ==
  { << k, i >> : k \in 1..Len(call.before.numbered_names), i \in 0..(call.index + 1) }

NumberedAt(p) == StrFormat(call.before.numbered_names[p[1]], << p[2] >>)

\* Place p is tried before place q: the formats in list order, and for one
\* format the numbers upwards.
TriedBefore(p, q) == p[1] < q[1] \/ (p[1] = q[1] /\ p[2] < q[2])

NumberedMatches == { p \in NumberedPlaces : crc32(NumberedAt(p)) = call.hash }

FirstNumberedMatch ==
  CHOOSE p \in NumberedMatches : \A q \in NumberedMatches : p = q \/ TriedBefore(p, q)

\* None of the stages 1 to 5 answers the last call.
NothingBeforeNumbered == IsGetName /\ \A n \in 1..5 : ~StageMatches(n)

\* C13: when the stages 1 to 5 yield nothing, the call returns the first
\* numbered name (formats in list order, i from 0 to index + 1) whose crc32 is
\* the hash, after inserting it into owned_names under the hash; if there is
\* none it returns nullopt and the table is as before the call.
C13_NumberedLastResort ==
  NothingBeforeNumbered =>
    IF NumberedMatches # { }
    THEN /\ call.ret = Some(NumberedAt(FirstNumberedMatch))
         /\ table.owned_names =
              [h \in DOMAIN call.before.owned_names \cup { call.hash } |->
                 IF h = call.hash THEN NumberedAt(FirstNumberedMatch)
                 ELSE call.before.owned_names[h]]
         /\ table.names = call.before.names
         /\ table.numbered_names = call.before.numbered_names
    ELSE /\ call.ret = nullopt
         /\ table = call.before

\* C13 witness: with a parent that does not resolve, "N_1" has been found for
\* index 0 as the format N_%d with i = index + 1 and inserted.
C13_Witness ==
  /\ NothingBeforeNumbered
  /\ call.parent \notin DOMAIN call.before.names
  /\ call.index = 0
  /\ call.ret = Some(Str_N_1)
  /\ call.hash \notin DOMAIN call.before.owned_names
  /\ table.owned_names[call.hash] = Str_N_1

(***************************************************************************)
(* C14: the maps of a NameTable hold each string under its own hash.       *)
(***************************************************************************)
\* Every entry of the map is a string under its crc32.
HashConsistent(map) == \A h \in DOMAIN map : crc32(map[h]) = h

\* Every entry of the map before is in the map after, with the same string.
Kept(before, after) ==
  \A h \in DOMAIN before : h \in DOMAIN after /\ after[h] = before[h]

\* C14: after the construction and any AddNameReference and GetName calls,
\* every entry of names and of owned_names is a string under its crc32; the
\* last call has removed or replaced no entry (an insertion under a hash
\* that has an entry changes nothing); and a string GetName returns hashes to
\* the hash it was called with.
C14_HashConsistency ==
  /\ HashConsistent(table.names)
  /\ HashConsistent(table.owned_names)
  /\ call.op \in { "GetName", "AddNameReference" } =>
       /\ Kept(call.before.names, table.names)
       /\ Kept(call.before.owned_names, table.owned_names)
  /\ (IsGetName /\ HasValue(call.ret)) => crc32(Value(call.ret)) = call.hash

\* C14 witness: AddNameReference of a string whose hash has another string in
\* names has changed nothing, and owned_names holds a guessed name.
C14_Witness ==
  /\ call.op = "AddNameReference"
  /\ crc32(call.name) \in DOMAIN call.before.names
  /\ call.before.names[crc32(call.name)] # call.name
  /\ table = call.before
  /\ DOMAIN table.owned_names # { }

(***************************************************************************)
(* C15: integers are narrowed to 32 bits without a range check.            *)
(***************************************************************************)
\* x mod 2^32 and the same bits read as a signed number.
Low32(x) == x % U32Mod
Signed32(x) == IF Low32(x) < U32Mod \div 2 THEN Low32(x) ELSE Low32(x) - U32Mod

\* Child k of the sequence read is a plain untagged integer scalar.
IsIntChild(k) ==
  /\ node.children[k].kind = "val"
  /\ node.children[k].tag = ""
  /\ ~node.children[k].quoted
  /\ IsIntText(node.children[k].text)

\* A buffer of integers that has been read.
IsIntBufferRead ==
  /\ rpc = "read"
  /\ node.kind = "seq"
  /\ node.tag \in { "!buffer_int", "!buffer_u32" }
  /\ \A k \in DOMAIN node.children : IsIntChild(k)

\* C15: an integer scalar that the scalar parser returns as the u64 x is read
\* without an error, as the U32 x mod 2^32 if its tag is !u and as the Int
\* x mod 2^32 taken as a signed 32-bit number if it has no tag, whatever x is;
\* the elements of a buffer of integers are narrowed in the same way; and a
\* float scalar is read as an F32.
C15_NarrowingWithoutRangeCheck ==
  /\ (IsIntScalarRead /\ node.tag = "!u") =>
       value = Ok(Param("U32", Low32(ParseInt(node.text))))
  /\ (IsIntScalarRead /\ node.tag = "") =>
       value = Ok(Param("Int", Signed32(ParseInt(node.text))))
  /\ (IsIntBufferRead /\ node.tag = "!buffer_u32") =>
       value = Ok(Param("BufferU32",
                        [k \in DOMAIN node.children |->
                           Low32(ParseInt(node.children[k].text))]))
  /\ (IsIntBufferRead /\ node.tag = "!buffer_int") =>
       value = Ok(Param("BufferInt",
                        [k \in DOMAIN node.children |->
                           Signed32(ParseInt(node.children[k].text))]))
  /\ (rpc = "read" /\ node.kind = "val" /\ node.tag = "" /\ ~node.quoted
      /\ IsFloatText(node.text)) =>
       value = Ok(Param("F32", ParseFloat(node.text)))

\* C15 witness: the untagged integer 2^32 + 5, which no 32-bit number holds,
\* has been read as the Int 5.
C15_Witness ==
  /\ IsIntScalarRead
  /\ node.tag = ""
  /\ ParseInt(node.text) = U32Mod + 5
  /\ value = Ok(Param("Int", 5))

=============================================================================
